---- MODULE Spec2Model ----
(***************************************************************************)
(* A model of claude-perms' log ingestion pipeline (package parser):       *)
(* the permission signature parser, the session log scanner, the           *)
(* fingerprint cache and the cached directory walker.                      *)
(*                                                                         *)
(* Go strings are TLA+ strings; a byte of a string s is SubSeq(s, i, i).   *)
(* Go maps are functions with a finite domain; a key that is absent reads  *)
(* as the zero value.  time.Time is a natural number, 0 being the zero     *)
(* time.Time{}.                                                            *)
(***************************************************************************)
EXTENDS Integers, Sequences, FiniteSets, TLC

(***************************************************************************)
(* Bounds of the model.                                                    *)
(***************************************************************************)
\* The longest session log the scanner specification reads, in lines.
MaxLines == 3

(***************************************************************************)
(* Strings (package strings).                                              *)
(***************************************************************************)
Char(s, i) == SubSeq(s, i, i)

\* strings.Contains
Contains(s, sub) ==
    \E i \in 1..(Len(s) - Len(sub) + 1) : SubSeq(s, i, i + Len(sub) - 1) = sub

\* strings.HasPrefix
HasPrefix(s, prefix) ==
    Len(s) >= Len(prefix) /\ SubSeq(s, 1, Len(prefix)) = prefix

\* unicode.IsSpace on the ASCII range
IsSpace(c) == c \in {" ", "\t", "\n", "\r", "\f"}

\* strings.TrimSpace
TrimSpace(s) ==
    LET keep == {i \in 1..Len(s) : ~IsSpace(Char(s, i))}
    IN  IF keep = {} THEN ""
        ELSE LET lo == CHOOSE i \in keep : \A j \in keep : i <= j
                 hi == CHOOSE i \in keep : \A j \in keep : j <= i
             IN  SubSeq(s, lo, hi)

\* strings.Fields: the maximal runs of non-space bytes, in order
RECURSIVE FieldsFrom(_, _)
FieldsFrom(s, i) ==
    IF i > Len(s) THEN <<>>
    ELSE IF IsSpace(Char(s, i)) THEN FieldsFrom(s, i + 1)
    ELSE LET stops == {j \in i..Len(s) : IsSpace(Char(s, j))}
             end   == IF stops = {} THEN Len(s) + 1
                      ELSE CHOOSE j \in stops : \A k \in stops : j <= k
         IN  <<SubSeq(s, i, end - 1)>> \o FieldsFrom(s, end)

Fields(s) == FieldsFrom(s, 1)

(***************************************************************************)
(* Go maps.                                                                *)
(***************************************************************************)
EmptyMap == [k \in {} |-> 0]

MapPut(m, k, v) == [x \in (DOMAIN m) \cup {k} |-> IF x = k THEN v ELSE m[x]]

\* m[k] of a map[string]int: 0 when k is absent
MapInt(m, k) == IF k \in DOMAIN m THEN m[k] ELSE 0

(***************************************************************************)
(* permission.go: ParsePermission, PermissionKey.                          *)
(***************************************************************************)
\* \w of the pattern
WordChars ==
    {"a", "b", "c", "d", "e", "f", "g", "h", "i", "j", "k", "l", "m",
     "n", "o", "p", "q", "r", "s", "t", "u", "v", "w", "x", "y", "z",
     "A", "B", "C", "D", "E", "F", "G", "H", "I", "J", "K", "L", "M",
     "N", "O", "P", "Q", "R", "S", "T", "U", "V", "W", "X", "Y", "Z",
     "0", "1", "2", "3", "4", "5", "6", "7", "8", "9", "_"}

\* The length of the longest prefix of s made of \w bytes
WordPrefixLen(s) ==
    LET bad == {i \in 1..Len(s) : Char(s, i) \notin WordChars}
    IN  IF bad = {} THEN Len(s)
        ELSE (CHOOSE i \in bad : \A j \in bad : i <= j) - 1

\* permissionPattern = ^(\w+)(?:\(([^)]+)\))?$ : the submatches, or
\* matched = FALSE when FindStringSubmatch returns nil
permissionPattern(s) ==
    LET k == WordPrefixLen(s)
        n == Len(s)
    IN  IF k >= 1 /\ k = n
        THEN [matched |-> TRUE, type |-> s, scope |-> ""]
        ELSE IF /\ k >= 1
                /\ n >= k + 3
                /\ Char(s, k + 1) = "("
                /\ Char(s, n) = ")"
                /\ \A i \in (k + 2)..(n - 1) : Char(s, i) # ")"
        THEN [matched |-> TRUE, type |-> SubSeq(s, 1, k),
              scope |-> SubSeq(s, k + 2, n - 1)]
        ELSE [matched |-> FALSE, type |-> "", scope |-> ""]

ParsePermission_wholeAsType(raw0) ==
    [Type |-> TrimSpace(raw0), Scope |-> "", Raw |-> TrimSpace(raw0)]

ParsePermission(raw0) ==
    LET raw == TrimSpace(raw0)
        m   == permissionPattern(raw)
    IN  IF ~m.matched
        THEN [Type |-> raw, Scope |-> "", Raw |-> raw]
        ELSE [Type |-> m.type, Scope |-> m.scope, Raw |-> raw]

PermissionKey(p) == p.Raw

(***************************************************************************)
(* scope.go: ExtractPermissionScope, extractBashCommand.                   *)
(*                                                                         *)
(* The input payload of a tool_use (a json.RawMessage) is a record         *)
(*   json    "none"   no bytes (the field is absent)                       *)
(*           "object" a JSON object; command and skill are its string      *)
(*                    fields of those names ("" when it has none)          *)
(*           "other"  JSON that does not decode into the input structs     *)
(***************************************************************************)
NoInput == [json |-> "none", command |-> "", skill |-> ""]
BashInput(c) == [json |-> "object", command |-> c, skill |-> ""]
SkillInput(s) == [json |-> "object", command |-> "", skill |-> s]
OtherInput == [json |-> "other", command |-> "", skill |-> ""]

compoundCommands == {"go", "npm", "bun", "yarn", "cargo", "git", "docker"}

extractBashCommand_firstWord(command0) ==
    IF Len(Fields(command0)) = 0 THEN "" ELSE Fields(command0)[1]

extractBashCommand(command0) ==
    LET command == TrimSpace(command0)
        parts   == Fields(command)
    IN  IF command = "" THEN ""
        ELSE IF Len(parts) = 0 THEN ""
        ELSE IF /\ parts[1] \in compoundCommands
                /\ Len(parts) >= 2
                /\ ~HasPrefix(parts[2], "-")
        THEN parts[1] \o " " \o parts[2]
        ELSE parts[1]

ExtractPermissionScope_anyToolSkill(toolName, input) ==
    IF input.json = "object" /\ input.skill # ""
    THEN "Skill(" \o input.skill \o ")"
    ELSE toolName

ExtractPermissionScope(toolName, input) ==
    IF input.json = "none" THEN toolName
    ELSE IF /\ toolName = "Bash"
            /\ input.json = "object"
            /\ input.command # ""
            /\ extractBashCommand(input.command) # ""
    THEN "Bash(" \o extractBashCommand(input.command) \o ":*)"
    ELSE IF toolName = "Skill" /\ input.json = "object" /\ input.skill # ""
    THEN "Skill(" \o input.skill \o ")"
    ELSE toolName

(***************************************************************************)
(* settings.go: matchesPermission, IsApprovedUser, IsApprovedProject,      *)
(* GetApprovalLevel; types.go: ApprovalLevel.                              *)
(***************************************************************************)
NotApproved == 0
ApprovedProject == 1
ApprovedUser == 2

matchesPermission_familyOnly(perm, pattern) ==
    perm = pattern \/ ParsePermission(perm).Type = ParsePermission(pattern).Type

matchesPermission(perm, pattern) ==
    IF perm = pattern THEN TRUE
    ELSE LET permParsed    == ParsePermission(perm)
             patternParsed == ParsePermission(pattern)
         IN  IF permParsed.Type # patternParsed.Type THEN FALSE
             ELSE IF patternParsed.Scope = "*" \/ patternParsed.Scope = "" THEN TRUE
             ELSE permParsed.Scope = patternParsed.Scope

IsApprovedUser(perm, userApproved) ==
    \E i \in DOMAIN userApproved : matchesPermission(perm, userApproved[i])

IsApprovedProject(perm, projectApproved) ==
    \E i \in DOMAIN projectApproved : matchesPermission(perm, projectApproved[i])

GetApprovalLevel_projectFirst(perm, userApproved, projectApproved) ==
    IF IsApprovedProject(perm, projectApproved) THEN ApprovedProject
    ELSE IF IsApprovedUser(perm, userApproved) THEN ApprovedUser
    ELSE NotApproved

GetApprovalLevel(perm, userApproved, projectApproved) ==
    IF IsApprovedUser(perm, userApproved) THEN ApprovedUser
    ELSE IF IsApprovedProject(perm, projectApproved) THEN ApprovedProject
    ELSE NotApproved

(***************************************************************************)
(* session.go: the records of a session log.                               *)
(*                                                                         *)
(* A timestamp field is "" (absent), a string time.Parse(RFC3339) accepts  *)
(* (kind "rfc3339", t the instant) or one it rejects (kind "bad").         *)
(***************************************************************************)
TsEmpty == [kind |-> "empty", t |-> 0]
TsBad == [kind |-> "bad", t |-> 0]
TsAt(t) == [kind |-> "rfc3339", t |-> t]

(***************************************************************************)
(* The content payload of a tool_result (a json.RawMessage): raw is its    *)
(* bytes, json says what they decode into:                                 *)
(*   "none"   no bytes                                                     *)
(*   "string" a JSON string, text its decoded value                        *)
(*   "array"  an array of objects, texts their decoded "text" fields       *)
(*   "other"  anything else                                                *)
(***************************************************************************)
NoContent == [json |-> "none", text |-> "", texts |-> <<>>, raw |-> ""]
StringContent(s) ==
    [json |-> "string", text |-> s, texts |-> <<>>, raw |-> "\"" \o s \o "\""]
ArrayContent(ts, r) == [json |-> "array", text |-> "", texts |-> ts, raw |-> r]
OtherContent(r) == [json |-> "other", text |-> "", texts |-> <<>>, raw |-> r]

\* ContentItem
ToolUse(id, name, input) ==
    [type |-> "tool_use", id |-> id, name |-> name, input |-> input,
     tool_use_id |-> "", is_error |-> FALSE, content |-> NoContent]
ToolResult(id, isError, content) ==
    [type |-> "tool_result", id |-> "", name |-> "", input |-> NoInput,
     tool_use_id |-> id, is_error |-> isError, content |-> content]
TextItem ==
    [type |-> "text", id |-> "", name |-> "", input |-> NoInput,
     tool_use_id |-> "", is_error |-> FALSE, content |-> NoContent]

(***************************************************************************)
(* A line of a log:                                                        *)
(*   long      the line exceeds the scanner's 1 MiB buffer                 *)
(*   marker    its bytes contain "tool_use" or "tool_result" in quotes     *)
(*   json      "ok": it decodes into JSONLEntry and its message into       *)
(*             AssistantMessage; "bad_entry": the line is not JSON;        *)
(*             "bad_message": the message does not decode (it is missing,  *)
(*             or its content is a plain string)                           *)
(*   timestamp, items: the decoded entry's timestamp and content items     *)
(***************************************************************************)
Record(ts, items) ==
    [long |-> FALSE, marker |-> TRUE, json |-> "ok", timestamp |-> ts,
     items |-> items]
NoMarkerLine ==
    [long |-> FALSE, marker |-> FALSE, json |-> "ok", timestamp |-> TsEmpty,
     items |-> <<TextItem>>]
\* A partial line: a tool_use record cut short by an in-progress write
MalformedLine ==
    [long |-> FALSE, marker |-> TRUE, json |-> "bad_entry",
     timestamp |-> TsEmpty, items |-> <<>>]
\* A user record whose message content is a plain string naming a marker
BadMessageLine ==
    [long |-> FALSE, marker |-> TRUE, json |-> "bad_message",
     timestamp |-> TsEmpty, items |-> <<>>]
\* A record of more than 1 MiB (its items are never decoded)
LongLine ==
    [long |-> TRUE, marker |-> TRUE, json |-> "ok", timestamp |-> TsEmpty,
     items |-> <<>>]
\* A partial line of more than 1 MiB
LongPartialLine ==
    [long |-> TRUE, marker |-> TRUE, json |-> "bad_entry",
     timestamp |-> TsEmpty, items |-> <<>>]

(***************************************************************************)
(* session.go: toolResultContainsRejection.                                *)
(***************************************************************************)
toolResultContainsRejection_anyError(raw) == TRUE

toolResultContainsRejection(raw) ==
    IF raw.raw = "" THEN FALSE
    ELSE IF raw.json = "string" THEN Contains(raw.text, "rejected")
    ELSE IF /\ raw.json = "array"
            /\ \E i \in 1..Len(raw.texts) : Contains(raw.texts[i], "rejected")
    THEN TRUE
    ELSE Contains(raw.raw, "rejected")

(***************************************************************************)
(* session.go: parseSessionLog, the body of its loops.  The scanner's      *)
(* five maps are the fields of a record st.                                *)
(***************************************************************************)
NewScan ==
    [counts |-> EmptyMap, approved |-> EmptyMap, denied |-> EmptyMap,
     lastSeen |-> EmptyMap, toolUseIDToKey |-> EmptyMap]

\* The entry time of an invocation: its record's timestamp, else sessionTime
EntryTime_fallbackOnly(timestamp, sessionTime) == sessionTime

EntryTime(timestamp, sessionTime) ==
    IF timestamp.kind = "rfc3339" THEN timestamp.t ELSE sessionTime

\* key, exists := toolUseIDToKey[id]
LookupToolUse_default(toolUseIDToKey, id) ==
    IF id \in DOMAIN toolUseIDToKey
    THEN [exists |-> TRUE, key |-> toolUseIDToKey[id]]
    ELSE [exists |-> TRUE, key |-> ""]

LookupToolUse(toolUseIDToKey, id) ==
    IF id \in DOMAIN toolUseIDToKey
    THEN [exists |-> TRUE, key |-> toolUseIDToKey[id]]
    ELSE [exists |-> FALSE, key |-> ""]

\* The tool_use branch
RecordToolUse_once(st, item, timestamp, sessionTime) ==
    LET key == PermissionKey(ParsePermission(
                   ExtractPermissionScope(item.name, item.input)))
    IN  [st EXCEPT !.counts = MapPut(@, key, 1),
                   !.lastSeen = MapPut(@, key, EntryTime(timestamp, sessionTime))]

RecordToolUse(st, item, timestamp, sessionTime) ==
    LET permString == ExtractPermissionScope(item.name, item.input)
        perm       == ParsePermission(permString)
        key        == PermissionKey(perm)
        entryTime  == EntryTime(timestamp, sessionTime)
    IN  [st EXCEPT
           !.counts = MapPut(@, key, MapInt(@, key) + 1),
           !.toolUseIDToKey = IF item.id # "" THEN MapPut(@, item.id, key) ELSE @,
           !.lastSeen = IF key \notin DOMAIN @ \/ entryTime > @[key]
                        THEN MapPut(@, key, entryTime) ELSE @]

\* The tool_result branch
RecordToolResult(st, item) ==
    LET found == LookupToolUse(st.toolUseIDToKey, item.tool_use_id)
        key   == found.key
    IN  IF ~found.exists THEN st
        ELSE IF item.is_error /\ toolResultContainsRejection(item.content)
        THEN [st EXCEPT !.denied = MapPut(@, key, MapInt(@, key) + 1)]
        ELSE IF ~item.is_error
        THEN [st EXCEPT !.approved = MapPut(@, key, MapInt(@, key) + 1)]
        ELSE st

\* One iteration of "for _, item := range msg.Content"
ProcessItem(st, item, timestamp, sessionTime) ==
    IF item.type = "tool_use" /\ item.name # ""
    THEN RecordToolUse(st, item, timestamp, sessionTime)
    ELSE IF item.type = "tool_result" /\ item.tool_use_id # ""
    THEN RecordToolResult(st, item)
    ELSE st

\* What the loop does with a line it was handed: "stop" when scanner.Scan()
\* fails on it, "skip" for the three continue statements, else "items"
LineOutcome(line) ==
    IF line.long THEN "stop"
    ELSE IF ~line.marker THEN "skip"
    ELSE IF line.json = "bad_entry" THEN "skip"
    ELSE IF line.json = "bad_message" THEN "skip"
    ELSE "items"

\* "Convert to stats": one PermissionStats per key of counts
ScanStats(st) ==
    {[Permission |-> ParsePermission(key),
      Count      |-> st.counts[key],
      Approved   |-> MapInt(st.approved, key),
      Denied     |-> MapInt(st.denied, key),
      LastSeen   |-> st.lastSeen[key],
      Projects   |-> <<>>,
      ApprovedAt |-> NotApproved] : key \in DOMAIN st.counts}

RECURSIVE ScanItems(_, _, _, _, _)
ScanItems(st, items, i, timestamp, sessionTime) ==
    IF i > Len(items) THEN st
    ELSE ScanItems(ProcessItem(st, items[i], timestamp, sessionTime),
                   items, i + 1, timestamp, sessionTime)

RECURSIVE ScanLines(_, _, _, _)
ScanLines(st, lines, n, sessionTime) ==
    IF n > Len(lines) THEN st
    ELSE LET outcome == LineOutcome(lines[n])
         IN  IF outcome = "stop" THEN st
             ELSE IF outcome = "skip" THEN ScanLines(st, lines, n + 1, sessionTime)
             ELSE ScanLines(ScanItems(st, lines[n].items, 1,
                                      lines[n].timestamp, sessionTime),
                            lines, n + 1, sessionTime)

\* parseSessionLog of a file that opens (canOpen) or does not
parseSessionLog(canOpen, lines, sessionTime) ==
    IF ~canOpen THEN [err |-> TRUE, stats |-> {}]
    ELSE [err |-> FALSE, stats |-> ScanStats(ScanLines(NewScan, lines, 1, sessionTime))]

\* The inputs of the scanner specification
ObjectInput == [json |-> "object", command |-> "", skill |-> ""]

ScanToolUses ==
    {ToolUse("t1", "Bash", BashInput("git status")),
     ToolUse("t1", "Read", ObjectInput),
     ToolUse("t2", "Read", NoInput),
     ToolUse("", "Bash", BashInput(" git -C /r status")),
     ToolUse("t2", "", ObjectInput)}

ScanToolResults ==
    {ToolResult("t1", FALSE, StringContent("ok")),
     ToolResult("t1", TRUE, StringContent("The tool use was rejected")),
     ToolResult("t1", TRUE, StringContent("exit status 1")),
     ToolResult("t1", TRUE,
         ArrayContent(<<"denied: rejected by user">>,
                      "[{\"type\":\"text\",\"text\":\"denied: rejected by user\"}]")),
     ToolResult("t1", TRUE,
         ArrayContent(<<"exit 1">>,
                      "[{\"type\":\"text\",\"text\":\"exit 1\",\"hook\":\"rejected\"}]")),
     ToolResult("t2", FALSE, NoContent),
     ToolResult("t3", FALSE, StringContent("ok")),
     ToolResult("", TRUE, StringContent("rejected"))}

ScanLineSet ==
    {Record(TsAt(2), <<u>>) : u \in ScanToolUses}
    \cup {Record(TsEmpty, <<r>>) : r \in ScanToolResults}
    \cup {Record(TsBad, <<ToolUse("t1", "Bash", BashInput("git status")),
                          ToolResult("t1", FALSE, StringContent("ok"))>>),
          Record(TsAt(4), <<ToolResult("t2", FALSE, NoContent), TextItem,
                            ToolUse("t2", "Read", NoInput)>>),
          NoMarkerLine, MalformedLine, BadMessageLine, LongLine,
          LongPartialLine}

SessionTimes == {3}

(***************************************************************************)
(* agents.go: extractAgentIdMappings (Phase 1 of the agent pass).          *)
(*                                                                         *)
(* A line of a parent session log is a record: shape "json" (it decodes    *)
(* into rawEntry: Type, the message, toolUseResult.agentId as agentId;     *)
(* msgOk tells whether the message decodes into a list of content items,   *)
(* items), "nomarker" (none of the four quick-check strings occurs in it), *)
(* "malformed" (json.Unmarshal of the line fails) or "long" (more than     *)
(* 1 MiB: scanner.Scan returns false).                                     *)
(***************************************************************************)
\* Content items: ToolUseItem and ToolResultItem read the same JSON objects
TaskUse(id, subagentType) ==
    [type |-> "tool_use", id |-> id, name |-> "Task",
     subagent_type |-> subagentType, tool_use_id |-> ""]
OtherUse(id, name) ==
    [type |-> "tool_use", id |-> id, name |-> name,
     subagent_type |-> "", tool_use_id |-> ""]
ResultItem(id) ==
    [type |-> "tool_result", id |-> "", name |-> "",
     subagent_type |-> "", tool_use_id |-> id]

AssistantLine(items) ==
    [shape |-> "json", Type |-> "assistant", msgOk |-> TRUE, items |-> items,
     agentId |-> ""]
UserLine(agentID, items) ==
    [shape |-> "json", Type |-> "user", msgOk |-> TRUE, items |-> items,
     agentId |-> agentID]
\* A user record whose message content is a string, with a toolUseResult
UserTextLine(agentID) ==
    [shape |-> "json", Type |-> "user", msgOk |-> FALSE, items |-> <<>>,
     agentId |-> agentID]
OtherLine(shape) ==
    [shape |-> shape, Type |-> "", msgOk |-> FALSE, items |-> <<>>,
     agentId |-> ""]

\* The quick checks: a decoded item puts its strings into the line
hasTask(line) == \E i \in DOMAIN line.items : line.items[i].name = "Task"
hasSubagent(line) == \E i \in DOMAIN line.items : line.items[i].subagent_type # ""
hasToolResult(line) == \E i \in DOMAIN line.items : line.items[i].type = "tool_result"
hasToolUseResult(line) == line.agentId # ""

\* The state of one call: [pendingTasks, agentIdToAgentType]
NewMappings == [pendingTasks |-> EmptyMap, agentIdToAgentType |-> EmptyMap]

\* delete(m, k)
MapDelete(m, k) == [x \in (DOMAIN m) \ {k} |-> m[x]]

\* The body of "for _, item := range fullMsg.Content"
LaunchItem(st, item) ==
    IF item.type = "tool_use" /\ item.name = "Task" /\ item.subagent_type # ""
    THEN [st EXCEPT !.pendingTasks = MapPut(@, item.id, item.subagent_type)]
    ELSE st

\* The body of "for _, item := range userMsg.Content"
AnswerItem_keepPending(st, item, agentID) ==
    IF item.type = "tool_result" /\ item.tool_use_id \in DOMAIN st.pendingTasks
    THEN [st EXCEPT !.agentIdToAgentType =
                       MapPut(@, agentID, st.pendingTasks[item.tool_use_id])]
    ELSE st

AnswerItem(st, item, agentID) ==
    IF item.type = "tool_result" /\ item.tool_use_id \in DOMAIN st.pendingTasks
    THEN [st EXCEPT !.agentIdToAgentType =
                       MapPut(@, agentID, st.pendingTasks[item.tool_use_id]),
                    !.pendingTasks = MapDelete(@, item.tool_use_id)]
    ELSE st

RECURSIVE LaunchItems(_, _)
LaunchItems(st, items) ==
    IF items = <<>> THEN st
    ELSE LaunchItems(LaunchItem(st, Head(items)), Tail(items))

RECURSIVE AnswerItems(_, _, _)
AnswerItems(st, items, agentID) ==
    IF items = <<>> THEN st
    ELSE AnswerItems(AnswerItem(st, Head(items), agentID), Tail(items), agentID)

\* One iteration of "for scanner.Scan()" on a line the scanner returned
MappingLine(st, line) ==
    IF line.shape # "json" THEN st
    ELSE IF ~(hasTask(line) \/ hasSubagent(line) \/ hasToolResult(line)
              \/ hasToolUseResult(line))
    THEN st
    ELSE IF line.Type = "assistant" /\ hasTask(line) /\ hasSubagent(line)
    THEN IF line.msgOk THEN LaunchItems(st, line.items) ELSE st
    ELSE IF line.Type = "user" /\ hasToolResult(line) /\ line.agentId # ""
    THEN IF line.msgOk THEN AnswerItems(st, line.items, line.agentId) ELSE st
    ELSE st

\* The lines a parent session log may hold
MappingLineSet ==
    {AssistantLine(<<TaskUse("u1", "Explore")>>),
     AssistantLine(<<TaskUse("u1", "Explore"), OtherUse("u4", "Bash"),
                     TaskUse("u2", "Plan")>>),
     AssistantLine(<<TaskUse("u1", "Plan")>>),
     AssistantLine(<<TaskUse("u3", "")>>),
     UserLine("a1", <<ResultItem("u1")>>),
     UserLine("a2", <<ResultItem("u2")>>),
     UserLine("a2", <<ResultItem("u1"), ResultItem("u2")>>),
     UserLine("", <<ResultItem("u1")>>),
     UserLine("a3", <<ResultItem("u3")>>),
     UserTextLine("a1"),
     OtherLine("nomarker"), OtherLine("malformed"), OtherLine("long")}

\* extractAgentIdMappings over the lines of a log: the loop ends at the end
\* of the file, or at a line too long for the buffer
RECURSIVE MappingLines(_, _, _)
MappingLines(st, lines, n) ==
    IF n > Len(lines) THEN st
    ELSE IF lines[n].shape = "long" THEN st
    ELSE MappingLines(MappingLine(st, lines[n]), lines, n + 1)

\* What extractAgentIdMappings leaves in the map it was handed (localMap,
\* empty at the call) for a log that opens (canOpen) or does not
extractAgentIdMappings(canOpen, lines) ==
    IF ~canOpen THEN EmptyMap
    ELSE MappingLines(NewMappings, lines, 1).agentIdToAgentType

(***************************************************************************)
(* agents.go: parseAgentSession (Phase 2 of the agent pass).               *)
(*                                                                         *)
(* A line of an agent log is a line of a session log together with Type,   *)
(* the decoded AgentEntry's type; marker tells whether its bytes contain   *)
(* "tool_use" in quotes, which the type of a tool_use item does and the    *)
(* tool_use_id of a tool_result does not.                                  *)
(***************************************************************************)
AgentRecord(type, ts, items) ==
    [long |-> FALSE,
     marker |-> \E i \in DOMAIN items : items[i].type = "tool_use",
     json |-> "ok", timestamp |-> ts, items |-> items, Type |-> type]
\* A line that does not decode, or is too long, or has no marker
AgentRawLine(line) ==
    [long |-> line.long, marker |-> line.marker, json |-> line.json,
     timestamp |-> line.timestamp, items |-> line.items, Type |-> ""]

\* counts, lastSeenMap and the named result lastSeen
NewAgentScan == [counts |-> EmptyMap, lastSeenMap |-> EmptyMap, lastSeen |-> 0]

\* "Parse entry timestamp": the zero time unless the timestamp parses
AgentEntryTime(timestamp) ==
    IF timestamp.kind = "rfc3339" THEN timestamp.t ELSE 0

\* The body of "if item.Type == tool_use && item.Name != ''"
AgentToolUse_countTask(st, item, timestamp) ==
    LET key == PermissionKey(ParsePermission(
                   ExtractPermissionScope(item.name, item.input)))
    IN  [st EXCEPT !.counts = MapPut(@, key, MapInt(@, key) + 1),
                   !.lastSeenMap = MapPut(@, key, AgentEntryTime(timestamp))]

AgentToolUse(st, item, timestamp) ==
    IF item.name = "Task" THEN st
    ELSE LET permString == ExtractPermissionScope(item.name, item.input)
             perm       == ParsePermission(permString)
             key        == PermissionKey(perm)
             entryTime  == AgentEntryTime(timestamp)
         IN  [st EXCEPT
                !.counts = MapPut(@, key, MapInt(@, key) + 1),
                !.lastSeenMap = IF key \notin DOMAIN @ \/ entryTime > @[key]
                                THEN MapPut(@, key, entryTime) ELSE @,
                !.lastSeen = IF entryTime > @ THEN entryTime ELSE @]

\* One iteration of "for _, item := range msg.Content"
AgentItem(st, item, timestamp) ==
    IF item.type = "tool_use" /\ item.name # ""
    THEN AgentToolUse(st, item, timestamp)
    ELSE st

\* What the loop does with a line: "stop" when scanner.Scan() fails on it,
\* "skip" for the four continue statements, else "items"
AgentLineOutcome(line) ==
    IF line.long THEN "stop"
    ELSE IF ~line.marker THEN "skip"
    ELSE IF line.json = "bad_entry" THEN "skip"
    ELSE IF line.Type # "assistant" THEN "skip"
    ELSE IF line.json = "bad_message" THEN "skip"
    ELSE "items"

RECURSIVE AgentScanItems(_, _, _, _)
AgentScanItems(st, items, i, timestamp) ==
    IF i > Len(items) THEN st
    ELSE AgentScanItems(AgentItem(st, items[i], timestamp), items, i + 1,
                        timestamp)

RECURSIVE AgentScanLines(_, _, _)
AgentScanLines(st, lines, n) ==
    IF n > Len(lines) THEN st
    ELSE LET outcome == AgentLineOutcome(lines[n])
         IN  IF outcome = "stop" THEN st
             ELSE IF outcome = "skip" THEN AgentScanLines(st, lines, n + 1)
             ELSE AgentScanLines(AgentScanItems(st, lines[n].items, 1,
                                                lines[n].timestamp),
                                 lines, n + 1)

\* "Convert to stats" (the slice is in the order of a range over counts;
\* each key is in it once, so it is kept as a set)
AgentScanStats(st) ==
    {[Permission |-> ParsePermission(key),
      Count      |-> st.counts[key],
      Approved   |-> 0,
      Denied     |-> 0,
      LastSeen   |-> st.lastSeenMap[key],
      Projects   |-> <<>>,
      ApprovedAt |-> NotApproved] : key \in DOMAIN st.counts}

\* parseAgentSession of a file that opens (canOpen) or does not
parseAgentSession(canOpen, lines) ==
    IF ~canOpen THEN [perms |-> {}, lastSeen |-> 0]
    ELSE LET st == AgentScanLines(NewAgentScan, lines, 1)
         IN  [perms |-> AgentScanStats(st), lastSeen |-> st.lastSeen]

(***************************************************************************)
(* session.go: decodeProjectPath, loadSessionsIndex, and the file system   *)
(* the walker reads.                                                       *)
(***************************************************************************)
\* strings.ReplaceAll(s, old, new) for a one-byte old
RECURSIVE ReplaceAll(_, _, _)
ReplaceAll(s, old, new) ==
    IF s = "" THEN ""
    ELSE (IF Char(s, 1) = old THEN new ELSE Char(s, 1))
         \o ReplaceAll(SubSeq(s, 2, Len(s)), old, new)

decodeProjectPath_alwaysAbsolute(encoded) ==
    "/" \o ReplaceAll(encoded, "-", "/")

decodeProjectPath(encoded) ==
    IF HasPrefix(encoded, "-")
    THEN "/" \o ReplaceAll(SubSeq(encoded, 2, Len(encoded)), "-", "/")
    ELSE ReplaceAll(encoded, "-", "/")

\* filepath.Join of two clean elements
Join(dir, name) == dir \o "/" \o name

\* A sessions-index.json: status "ok" (it reads and decodes into
\* SessionsIndex), "missing" or "bad" (it reads and is not such JSON)
loadSessionsIndex_useEntries(index) ==
    [err |-> FALSE, entries |-> index.entries]

loadSessionsIndex(index) ==
    IF index.status = "ok"
    THEN [err |-> FALSE, entries |-> index.entries]
    ELSE [err |-> TRUE, entries |-> <<>>]

SessionEntry(id, fileMtime, modified) ==
    [SessionID |-> id, FileMtime |-> fileMtime, Modified |-> modified]

\* "Parse modified time": Modified when it parses, else FileMtime (epoch
\* milliseconds) in seconds
SessionTime(session) ==
    LET parsed == IF session.Modified.kind = "rfc3339"
                  THEN session.Modified.t ELSE 0
    IN  IF parsed = 0 THEN session.FileMtime \div 1000 ELSE parsed

\* The contents a session log may have: two of one size, one longer
ContentA ==
    [size  |-> 300,
     lines |-> <<Record(TsAt(4), <<ToolUse("t1", "Bash", BashInput("git status"))>>),
                 Record(TsEmpty, <<ToolResult("t1", FALSE, StringContent("ok"))>>),
                 Record(TsEmpty, <<ToolUse("t2", "Read", ObjectInput)>>)>>]
ContentB ==
    [size  |-> 300,
     lines |-> <<Record(TsAt(6), <<ToolUse("t1", "Bash", BashInput("git status")),
                                   ToolUse("t3", "Bash", BashInput("git status"))>>),
                 Record(TsEmpty, <<ToolResult("t1", TRUE,
                                      StringContent("The tool use was rejected"))>>),
                 MalformedLine>>]
ContentC ==
    [size  |-> 450,
     lines |-> <<Record(TsAt(8), <<ToolUse("t1", "Read", ObjectInput),
                                   ToolUse("t2", "Read", ObjectInput)>>),
                 Record(TsEmpty, <<ToolResult("t2", FALSE, NoContent)>>),
                 NoMarkerLine>>]

Contents == {"A", "B", "C"}

\* The contents an agent log may have: two of one size, one longer.  X has
\* a launch among its invocations and a rejected result; Y has an
\* invocation in a user record and records after a line of more than 1 MiB;
\* Z has a launch, its result and a partial line
ContentX ==
    [size  |-> 120,
     lines |-> <<AgentRecord("assistant", TsAt(4),
                    <<ToolUse("t1", "Bash", BashInput("git status")),
                      ToolUse("t2", "Task", ObjectInput)>>),
                 AgentRecord("user", TsEmpty,
                    <<ToolResult("t1", TRUE,
                         StringContent("The tool use was rejected"))>>),
                 AgentRecord("assistant", TsEmpty,
                    <<ToolUse("t3", "Read", ObjectInput)>>)>>]
ContentY ==
    [size  |-> 120,
     lines |-> <<AgentRecord("assistant", TsAt(6),
                    <<ToolUse("t1", "Read", ObjectInput), TextItem,
                      ToolUse("t2", "Read", ObjectInput)>>),
                 AgentRecord("user", TsAt(7),
                    <<ToolUse("t4", "Bash", BashInput("git status"))>>),
                 AgentRawLine(LongLine),
                 AgentRecord("assistant", TsAt(9),
                    <<ToolUse("t5", "Read", ObjectInput)>>)>>]
ContentZ ==
    [size  |-> 200,
     lines |-> <<AgentRecord("assistant", TsAt(8),
                    <<ToolUse("t1", "Task", ObjectInput)>>),
                 AgentRecord("user", TsAt(8),
                    <<ToolResult("t1", FALSE, StringContent("done"))>>),
                 AgentRawLine(MalformedLine)>>]

AgentContents == {"X", "Y", "Z"}

\* The contents a parent session log may have, as Phase 1 reads them: P1
\* launches two agent types, answered as a1 and a2; P2 launches one type
\* twice, answered as a1 and a3; P3 launches one agent, answered as a1
ContentP1 ==
    [size  |-> 500,
     lines |-> <<AssistantLine(<<TaskUse("u1", "Explore"), OtherUse("u4", "Bash"),
                                 TaskUse("u2", "Plan")>>),
                 UserLine("a1", <<ResultItem("u1")>>),
                 UserLine("a2", <<ResultItem("u2")>>)>>]
ContentP2 ==
    [size  |-> 500,
     lines |-> <<AssistantLine(<<TaskUse("u1", "Explore")>>),
                 UserLine("a1", <<ResultItem("u1")>>),
                 AssistantLine(<<TaskUse("u2", "Explore")>>),
                 UserLine("a3", <<ResultItem("u2")>>)>>]
ContentP3 ==
    [size  |-> 640,
     lines |-> <<OtherLine("nomarker"),
                 AssistantLine(<<TaskUse("u1", "Plan")>>),
                 UserLine("a1", <<ResultItem("u1")>>)>>]

ParentContents == {"P1", "P2", "P3"}

ContentOf(name) ==
    IF name = "A" THEN ContentA
    ELSE IF name = "B" THEN ContentB
    ELSE IF name = "C" THEN ContentC
    ELSE IF name = "X" THEN ContentX
    ELSE IF name = "Y" THEN ContentY
    ELSE IF name = "Z" THEN ContentZ
    ELSE IF name = "P1" THEN ContentP1
    ELSE IF name = "P2" THEN ContentP2
    ELSE ContentP3

\* The bytes and the lines of a file
FileSize(file) == ContentOf(file.content).size
FileLines(file) == ContentOf(file.content).lines


(***************************************************************************)
(* cache.go: the fingerprint cache.                                        *)
(*                                                                         *)
(* A file of the file system is [status, mtime, content] with status "ok", *)
(* "unreadable" (os.Stat succeeds, os.Open fails) or "missing"; content    *)
(* names what it holds (see Contents).                                     *)
(***************************************************************************)
cacheVersion == 3

MissingFile == [status |-> "missing", mtime |-> 0, content |-> "A"]

newCache ==
    [Version |-> cacheVersion, Sessions |-> EmptyMap,
     AgentMappings |-> EmptyMap, AgentSessions |-> EmptyMap]

\* The cache file: status "json" (it reads and decodes into PermsCache, the
\* value being cache), "garbage" (it reads and does not decode),
\* "unreadable" or "missing"
loadCache_anyVersion(cacheFile) ==
    IF cacheFile.status # "json" THEN newCache ELSE cacheFile.cache

loadCache(cacheFile) ==
    IF cacheFile.status \in {"missing", "unreadable"} THEN newCache
    ELSE IF cacheFile.status = "garbage" \/ cacheFile.cache.Version # cacheVersion
    THEN newCache
    ELSE cacheFile.cache

\* fileHash: the first 8 bytes of SHA-256 of "mtime:size", taken to be
\* collision-free and so modelled by the hashed text itself
fileHash(file) ==
    IF file.status = "missing" THEN [err |-> TRUE, hash |-> ""]
    ELSE [err |-> FALSE,
          hash |-> ToString(file.mtime) \o ":" \o ToString(FileSize(file))]

getCachedStats_ignoreHash(cache, path, file) ==
    IF fileHash(file).err \/ path \notin DOMAIN cache.Sessions
    THEN [hit |-> FALSE, stats |-> {}]
    ELSE [hit |-> TRUE, stats |-> cache.Sessions[path].Stats]

getCachedStats(cache, path, file) ==
    LET h == fileHash(file)
    IN  IF h.err THEN [hit |-> FALSE, stats |-> {}]
        ELSE IF path \notin DOMAIN cache.Sessions
                \/ cache.Sessions[path].FileHash # h.hash
        THEN [hit |-> FALSE, stats |-> {}]
        ELSE [hit |-> TRUE, stats |-> cache.Sessions[path].Stats]

setCachedStats(cache, path, file, stats) ==
    LET h == fileHash(file)
    IN  IF h.err THEN cache
        ELSE [cache EXCEPT !.Sessions =
                 MapPut(@, path, [FileHash |-> h.hash, Stats |-> stats])]

getCachedAgentMappings(cache, path, file) ==
    LET h == fileHash(file)
    IN  IF h.err THEN [hit |-> FALSE, mappings |-> EmptyMap]
        ELSE IF path \notin DOMAIN cache.AgentMappings
                \/ cache.AgentMappings[path].FileHash # h.hash
        THEN [hit |-> FALSE, mappings |-> EmptyMap]
        ELSE [hit |-> TRUE, mappings |-> cache.AgentMappings[path].Mappings]

setCachedAgentMappings_keepPrior(cache, path, file, mappings) ==
    IF fileHash(file).err \/ path \in DOMAIN cache.AgentMappings THEN cache
    ELSE [cache EXCEPT !.AgentMappings =
             MapPut(@, path, [FileHash |-> fileHash(file).hash,
                              Mappings |-> mappings])]

setCachedAgentMappings(cache, path, file, mappings) ==
    LET h == fileHash(file)
    IN  IF h.err THEN cache
        ELSE [cache EXCEPT !.AgentMappings =
                 MapPut(@, path, [FileHash |-> h.hash, Mappings |-> mappings])]

getCachedAgentSession(cache, path, file) ==
    LET h == fileHash(file)
    IN  IF h.err THEN [hit |-> FALSE, perms |-> {}, lastSeen |-> 0]
        ELSE IF path \notin DOMAIN cache.AgentSessions
                \/ cache.AgentSessions[path].FileHash # h.hash
        THEN [hit |-> FALSE, perms |-> {}, lastSeen |-> 0]
        ELSE [hit |-> TRUE, perms |-> cache.AgentSessions[path].Perms,
              lastSeen |-> cache.AgentSessions[path].LastSeen]

setCachedAgentSession(cache, path, file, perms, lastSeen) ==
    LET h == fileHash(file)
    IN  IF h.err THEN cache
        ELSE [cache EXCEPT !.AgentSessions =
                 MapPut(@, path, [FileHash |-> h.hash, Perms |-> perms,
                                  LastSeen |-> lastSeen])]

\* "if cacheMisses > 0 { saveCache }"
ShouldSave_always(cacheMisses) == TRUE

ShouldSave(cacheMisses) == cacheMisses > 0

(***************************************************************************)
(* The aggregation loop shared by LoadAllPermissionStatsFromWithProgress   *)
(* (session.go) and loadPermissionStatsWithCache (cache.go).               *)
(***************************************************************************)
NewStats(permission) ==
    [Permission |-> permission, Count |-> 0, Approved |-> 0, Denied |-> 0,
     LastSeen |-> 0, Projects |-> <<>>, ApprovedAt |-> NotApproved]

\* The body of "for _, p := range perms"; agg is [statsMap, projectsMap]
MergeStat_overwrite(agg, p, projectName) ==
    LET key == PermissionKey(p.Permission)
    IN  [statsMap    |-> MapPut(agg.statsMap, key,
                            [p EXCEPT !.Projects = <<>>]),
         projectsMap |-> MapPut(agg.projectsMap, key, {projectName})]

\* "if p.LastSeen.After(statsMap[key].LastSeen) { statsMap[key].LastSeen =
\* p.LastSeen }"
LaterOf_incoming(lastSeen, incoming) == incoming

LaterOf(lastSeen, incoming) ==
    IF incoming > lastSeen THEN incoming ELSE lastSeen

MergeStat(agg, p, projectName) ==
    LET key  == PermissionKey(p.Permission)
        old  == IF key \in DOMAIN agg.statsMap THEN agg.statsMap[key]
                ELSE NewStats(p.Permission)
        seen == IF key \in DOMAIN agg.projectsMap THEN agg.projectsMap[key]
                ELSE {}
        new  == [old EXCEPT
                   !.Count = @ + p.Count,
                   !.Approved = @ + p.Approved,
                   !.Denied = @ + p.Denied,
                   !.LastSeen = LaterOf(@, p.LastSeen)]
    IN  [statsMap    |-> MapPut(agg.statsMap, key, new),
         projectsMap |-> MapPut(agg.projectsMap, key, seen \cup {projectName})]

\* The loop over one file's perms (the order of the slice does not matter:
\* each key occurs once in it)
RECURSIVE MergeAll(_, _, _)
MergeAll(agg, perms, projectName) ==
    IF perms = {} THEN agg
    ELSE LET p == CHOOSE q \in perms : TRUE
         IN  MergeAll(MergeStat(agg, p, projectName), perms \ {p}, projectName)

(***************************************************************************)
(* "Convert and sort".  Ranging over a Go map visits its keys in an order  *)
(* the language leaves open: any order may come out.                       *)
(***************************************************************************)
\* The orders in which a range over a map with key set S may visit it
RangeOrders(S) ==
    {f \in [1..Cardinality(S) -> S] : \A i, j \in DOMAIN f : i # j => f[i] # f[j]}

\* The printable ASCII bytes in ascending order (the backquote left out)
Ascii ==
    " !\"#$%&'()*+,-./0123456789:;<=>?@ABCDEFGHIJKLMNOPQRSTUVWXYZ[\\]^_abcdefghijklmnopqrstuvwxyz{|}~"

CharCode(c) == CHOOSE i \in 1..Len(Ascii) : Char(Ascii, i) = c

\* a < b on Go strings (bytewise)
RECURSIVE StringLess(_, _)
StringLess(a, b) ==
    IF b = "" THEN FALSE
    ELSE IF a = "" THEN TRUE
    ELSE IF Char(a, 1) # Char(b, 1) THEN CharCode(Char(a, 1)) < CharCode(Char(b, 1))
    ELSE StringLess(SubSeq(a, 2, Len(a)), SubSeq(b, 2, Len(b)))

\* sort.Strings of the elements of S
SortStrings(S) ==
    CHOOSE f \in RangeOrders(S) :
        \A i, j \in DOMAIN f : i < j => StringLess(f[i], f[j])

Swap(seq, i, j) == [seq EXCEPT ![i] = seq[j], ![j] = seq[i]]

\* cache.go "Sort by count descending": the two nested loops, i and j 1-based
RECURSIVE ExchangeSort(_, _, _)
ExchangeSort(stats, i, j) ==
    IF i > Len(stats) THEN stats
    ELSE IF j > Len(stats) THEN ExchangeSort(stats, i + 1, i + 2)
    ELSE IF stats[j].Count > stats[i].Count
    THEN ExchangeSort(Swap(stats, i, j), i, j + 1)
    ELSE ExchangeSort(stats, i, j + 1)

\* sort.Slice by Count descending is not stable: any arrangement of the
\* slice that is descending by Count may come out
SortSliceResults(stats) ==
    {[i \in DOMAIN stats |-> stats[f[i]]] : f \in
        {g \in RangeOrders(DOMAIN stats) :
            \A i, j \in DOMAIN stats :
                i < j => stats[g[i]].Count >= stats[g[j]].Count}}

\* The slices "Convert map to slice" and the sort may return for a walker
\* of the given kind
ConvertAndSort(kind, statsMap, projectsMap) ==
    LET projectLists(key) ==
            IF kind = "uncached" THEN {SortStrings(projectsMap[key])}
            ELSE RangeOrders(projectsMap[key])
        choices == {c \in [DOMAIN statsMap -> UNION {projectLists(k) : k \in DOMAIN statsMap}] :
                       \A k \in DOMAIN statsMap : c[k] \in projectLists(k)}
        slices == {[i \in 1..Cardinality(DOMAIN statsMap) |->
                      [statsMap[order[i]] EXCEPT !.Projects = c[order[i]]]] :
                   order \in RangeOrders(DOMAIN statsMap), c \in choices}
    IN  IF kind = "uncached"
        THEN UNION {SortSliceResults(sl) : sl \in slices}
        ELSE {ExchangeSort(sl, 1, 2) : sl \in slices}

(***************************************************************************)
(* grouping.go: GroupPermissions.                                          *)
(***************************************************************************)
\* The group made for the first stat of a base type
NewGroup(stat) ==
    [Type          |-> stat.Permission.Type,
     TotalCount    |-> stat.Count,
     TotalApproved |-> stat.Approved,
     TotalDenied   |-> stat.Denied,
     LastSeen      |-> stat.LastSeen,
     Children      |-> <<stat>>,
     Expanded      |-> FALSE,
     ApprovedAt    |-> stat.ApprovedAt]

\* "if stat.ApprovedAt > group.ApprovedAt { group.ApprovedAt = ... }"
RaiseLevel_keep(level, statLevel) == level

RaiseLevel(level, statLevel) ==
    IF statLevel > level THEN statLevel ELSE level

\* The branch "if group, exists := groupMap[baseType]; exists"
GroupAdd_countOnly(group, stat) ==
    [group EXCEPT
       !.TotalCount = @ + stat.Count,
       !.Children = Append(@, stat),
       !.LastSeen = IF stat.LastSeen > @ THEN stat.LastSeen ELSE @,
       !.ApprovedAt = RaiseLevel(@, stat.ApprovedAt)]

GroupAdd(group, stat) ==
    [group EXCEPT
       !.TotalCount = @ + stat.Count,
       !.TotalApproved = @ + stat.Approved,
       !.TotalDenied = @ + stat.Denied,
       !.Children = Append(@, stat),
       !.LastSeen = IF stat.LastSeen > @ THEN stat.LastSeen ELSE @,
       !.ApprovedAt = RaiseLevel(@, stat.ApprovedAt)]

\* The body of "for _, stat := range stats"
GroupStat_bySignature(groupMap, stat) ==
    LET baseType == stat.Permission.Raw
    IN  IF baseType \in DOMAIN groupMap
        THEN MapPut(groupMap, baseType, GroupAdd(groupMap[baseType], stat))
        ELSE MapPut(groupMap, baseType, NewGroup(stat))

GroupStat(groupMap, stat) ==
    LET baseType == stat.Permission.Type
    IN  IF baseType \in DOMAIN groupMap
        THEN MapPut(groupMap, baseType, GroupAdd(groupMap[baseType], stat))
        ELSE MapPut(groupMap, baseType, NewGroup(stat))

RECURSIVE GroupStats(_, _, _)
GroupStats(groupMap, stats, i) ==
    IF i > Len(stats) THEN groupMap
    ELSE GroupStats(GroupStat(groupMap, stats[i]), stats, i + 1)

\* sort.Slice by TotalCount descending (not stable)
SortByTotalCount(groups) ==
    {[i \in DOMAIN groups |-> groups[f[i]]] : f \in
        {g \in RangeOrders(DOMAIN groups) :
            \A i, j \in DOMAIN groups :
                i < j => groups[g[i]].TotalCount >= groups[g[j]].TotalCount}}

\* The slices GroupPermissions may return: the groups are taken in the
\* order of a range over groupMap, and neither sort is stable
GroupPermissions(stats) ==
    LET groupMap == GroupStats(EmptyMap, stats, 1)
        sorted(t) == {[groupMap[t] EXCEPT !.Children = children] :
                         children \in SortSliceResults(groupMap[t].Children)}
        choices  == {c \in [DOMAIN groupMap ->
                              UNION {sorted(t) : t \in DOMAIN groupMap}] :
                        \A t \in DOMAIN groupMap : c[t] \in sorted(t)}
        slices   == {[i \in 1..Cardinality(DOMAIN groupMap) |-> c[order[i]]] :
                     order \in RangeOrders(DOMAIN groupMap), c \in choices}
    IN  UNION {SortByTotalCount(sl) : sl \in slices}

(***************************************************************************)
(* agents.go: LoadAgentUsageStatsFrom, the bodies of its loops.            *)
(***************************************************************************)
\* strings.TrimPrefix, strings.TrimSuffix, filepath.Base of a clean path
TrimPrefix(str, prefix) ==
    IF HasPrefix(str, prefix) THEN SubSeq(str, Len(prefix) + 1, Len(str)) ELSE str
TrimSuffix(str, suffix) ==
    IF /\ Len(str) >= Len(suffix)
       /\ SubSeq(str, Len(str) - Len(suffix) + 1, Len(str)) = suffix
    THEN SubSeq(str, 1, Len(str) - Len(suffix))
    ELSE str
RECURSIVE Base(_)
Base(path) ==
    IF ~Contains(path, "/") THEN path
    ELSE Base(SubSeq(path, 2, Len(path)))

\* "agentId := ..."
AgentIdOf(agentFile) == TrimSuffix(TrimPrefix(Base(agentFile), "agent-"), ".jsonl")

\* "agentType, ok := agentIdToAgentType[agentId]; if !ok { ... }"
AgentTypeOf_alwaysUnknown(mappings, agentId) == "Unknown"

AgentTypeOf(mappings, agentId) ==
    IF agentId \in DOMAIN mappings THEN mappings[agentId] ELSE "Unknown"

\* "for k, v := range localMap { agentIdToAgentType[k] = v }"
MapMerge(into, from) ==
    [k \in DOMAIN into \cup DOMAIN from |->
        IF k \in DOMAIN from THEN from[k] ELSE into[k]]

\* agentStatsBuilder (agentType is the key it is stored under)
NewBuilder == [permissions |-> EmptyMap, sessions |-> {}, projects |-> {}, lastSeen |-> 0]

\* The body of "for _, p := range perms" of the second pass
BuilderAdd(builder, p) ==
    LET key == PermissionKey(p.Permission)
        old == IF key \in DOMAIN builder.permissions THEN builder.permissions[key]
               ELSE NewStats(p.Permission)
        new == [old EXCEPT
                  !.Count = @ + p.Count,
                  !.LastSeen = IF p.LastSeen > @ THEN p.LastSeen ELSE @]
    IN  [builder EXCEPT !.permissions = MapPut(@, key, new)]

RECURSIVE BuilderAddAll(_, _)
BuilderAddAll(builder, perms) ==
    IF perms = {} THEN builder
    ELSE LET p == CHOOSE q \in perms : TRUE
         IN  BuilderAddAll(BuilderAdd(builder, p), perms \ {p})

\* One iteration of "for _, agentFile := range agentFiles" after the lookup
AttributeFile(stats, agentType, agentFile, projectName, perms, fileTime) ==
    LET old     == IF agentType \in DOMAIN stats THEN stats[agentType] ELSE NewBuilder
        listed  == [old EXCEPT !.sessions = @ \cup {agentFile},
                               !.projects = @ \cup {projectName}]
        counted == BuilderAddAll(listed, perms)
    IN  MapPut(stats, agentType,
               [counted EXCEPT !.lastSeen = IF fileTime > @ THEN fileTime ELSE @])

\* "totalCalls += p.Count" over the builder's permissions
RECURSIVE SumCounts(_, _)
SumCounts(perms, keys) ==
    IF keys = {} THEN 0
    ELSE LET k == CHOOSE x \in keys : TRUE
         IN  perms[k].Count + SumCounts(perms, keys \ {k})

totalCalls_entries(perms) == Cardinality(DOMAIN perms)

totalCalls(perms) == SumCounts(perms, DOMAIN perms)

\* sort.Slice by TotalCalls descending (not stable)
SortByTotalCalls(usage) ==
    {[i \in DOMAIN usage |-> usage[f[i]]] : f \in
        {g \in RangeOrders(DOMAIN usage) :
            \A i, j \in DOMAIN usage :
                i < j => usage[g[i]].TotalCalls >= usage[g[j]].TotalCalls}}

\* The AgentUsageStats "Convert to output slice" may build for a builder
AgentUsageOf(agentType, builder) ==
    LET slices == {[i \in 1..Cardinality(DOMAIN builder.permissions) |->
                      builder.permissions[order[i]]] :
                   order \in RangeOrders(DOMAIN builder.permissions)}
    IN  {[AgentType   |-> agentType,
          Permissions |-> perms,
          TotalCalls  |-> totalCalls(builder.permissions),
          LastSeen    |-> builder.lastSeen,
          Sessions    |-> Cardinality(builder.sessions),
          Projects    |-> SortStrings(builder.projects)] :
         perms \in UNION {SortSliceResults(sl) : sl \in slices}}

\* The slices "Convert to output slice" and the final sort may return
ConvertAgentStats(stats) ==
    LET choices == {c \in [DOMAIN stats ->
                             UNION {AgentUsageOf(t, stats[t]) : t \in DOMAIN stats}] :
                       \A t \in DOMAIN stats : c[t] \in AgentUsageOf(t, stats[t])}
        slices  == {[i \in 1..Cardinality(DOMAIN stats) |-> c[order[i]]] :
                    order \in RangeOrders(DOMAIN stats), c \in choices}
    IN  UNION {SortByTotalCalls(sl) : sl \in slices}

(***************************************************************************)
(* The session log scanner as a state machine: parseSessionLog reading a   *)
(* log a line at a time and a content item at a time.  scanLines is the    *)
(* part of the log known so far: the lines read, and after the scanner     *)
(* has stopped short of the end, the lines it left unread.                 *)
(***************************************************************************)
VARIABLES
    scanPc,          \* "open", "lines" (at scanner.Scan()), "items", "done"
    scanLines,       \* the lines of the log known so far
    sessionTime,     \* the fallback timestamp parseSessionLog was given
    itemIdx,         \* the index of the next content item of the last line
    counts, approved, denied, lastSeen, toolUseIDToKey,
    scanResult       \* what parseSessionLog returned: [err, stats]

scanVars == <<scanPc, scanLines, sessionTime, itemIdx, counts, approved,
              denied, lastSeen, toolUseIDToKey, scanResult>>

(***************************************************************************)
(* The state of the directory walker.                                      *)
(***************************************************************************)
VARIABLES
    dir,           \* the projects directory: [status, entries]
    indexes,       \* project directory name -> its sessions-index.json
    files,         \* session log path -> file
    cacheFile,     \* ~/.claude/perms-cache.json
    wpc,           \* "idle", "project" (at the outer loop), "session"
    kind,          \* the kind of the run in progress
    cache,         \* the *PermsCache of the run
    cacheHits, cacheMisses,
    statsMap, projectsMap,
    projIdx,       \* the index in dir.entries of the project being walked
    sessions,      \* its index entries
    sessIdx,       \* the index in sessions of the next session
    result,        \* the last run completed since the file system last
                   \* changed: what it returned and counted
    prev,          \* the run completed before it, likewise
    loaded,        \* the cache file's status and version when the run began
    perFile,       \* what the run did with each session so far, in order:
                   \* the lookup's answer, the file skipped or its results
    saves,         \* the number of saveCache calls of the run
    edits,         \* the number of file system changes so far
    runs,          \* the number of runs begun so far
    progress,      \* the progress channel the run was given: [mode, cap]
    channel        \* the strings sent on it and not yet received

walkVars == <<dir, indexes, files, cacheFile, wpc, kind, cache, cacheHits,
              cacheMisses, statsMap, projectsMap, projIdx, sessions, sessIdx,
              result, prev, loaded, perFile, saves, edits, runs, progress,
              channel>>

(***************************************************************************)
(* The state of a caller of the string functions (ExtractPermissionScope,  *)
(* ParsePermission, matchesPermission, decodeProjectPath).                 *)
(***************************************************************************)
VARIABLES
    libCall,       \* the call made last: [fn, args]
    libRet         \* what it returned

libVars == <<libCall, libRet>>

(***************************************************************************)
(* The state of LoadData's approval step: "Load approved permissions" and  *)
(* "Update approval status for each permission".                           *)
(***************************************************************************)
VARIABLES
    ldPc,             \* "start", "loop" (at "for i := range permissions"), "done"
    permissions,      \* the walker's result: PermissionStats (Raw, ApprovedAt)
    permIdx,          \* the loop's i, 1-based
    userApproved,     \* the allow list of the user settings
    projectApproved   \* the allow list of the project settings

approvalVars == <<ldPc, permissions, permIdx, userApproved, projectApproved>>

(***************************************************************************)
(* The state of one call of extractAgentIdMappings.                        *)
(***************************************************************************)
VARIABLES
    mapPc,               \* "open", "lines" (at scanner.Scan()), "done"
    mapLines,            \* the lines of the log known so far: those read,
                         \* and after the scanner has stopped short of the
                         \* end, lines it left unread
    pendingTasks,        \* tool_use_id -> agentType
    agentIdToAgentType   \* the caller's map (localMap)

mappingVars == <<mapPc, mapLines, pendingTasks, agentIdToAgentType>>

(***************************************************************************)
(* The state of the agent pass (LoadAgentUsageStatsFrom).                  *)
(***************************************************************************)
VARIABLES
    apc,            \* "idle", "scan" (in the loops of the two passes)
    afiles,         \* the logs under the projects directory: path -> file
    acacheFile,     \* ~/.claude/perms-cache.json
    acache,         \* the *PermsCache of the run
    cacheDirty,
    aIdx,           \* the index in AgentUnits of the next file
    agentIdToType,  \* the run's agentIdToAgentType
    agentStats,     \* agent type -> its agentStatsBuilder
    aresult,        \* the last run completed since the file system last
                    \* changed: what it returned, and its first pass's map
    aperFile,       \* what the second pass did with each agent log so far
    aruns,          \* the number of runs begun so far
    aedits          \* the number of file system changes so far

agentVars == <<apc, afiles, acacheFile, acache, cacheDirty, aIdx,
               agentIdToType, agentStats, aresult, aperFile, aruns, aedits>>

\* writePermissionToSettings, call after call on one settings file
VARIABLES
    settingsFile,     \* the settings file: what os.ReadFile finds at path
    applied,          \* the calls made so far: arguments, file before and
                      \* after, and what each returned
    preview           \* the call of PreviewPermissionDiff made, if any
settingsVars == <<settingsFile, applied, preview>>

\* The terminal program: the Model of the bubbletea loop and its events
VARIABLES
    tuiModel,         \* the Model value the last Update returned
    tuiLoaded,        \* dataLoadedMsg has been delivered
    tuiQuit           \* an Update returned tea.Quit
keysVars == <<tuiModel, tuiLoaded, tuiQuit>>

vars == <<scanVars, walkVars, libVars, approvalVars, mappingVars, agentVars,
          settingsVars, keysVars>>

\* What a step of the scanner, of a walker, of a caller of the string
\* functions, of the approval step, of the mapping scan leaves alone
exceptScan == <<walkVars, libVars, approvalVars, mappingVars, agentVars,
    settingsVars, keysVars>>
exceptWalk == <<scanVars, libVars, approvalVars, mappingVars, agentVars,
    settingsVars, keysVars>>
exceptLib == <<scanVars, walkVars, approvalVars, mappingVars, agentVars,
    settingsVars, keysVars>>
exceptApproval == <<scanVars, walkVars, libVars, mappingVars, agentVars,
    settingsVars, keysVars>>
exceptMapping == <<scanVars, walkVars, libVars, approvalVars, agentVars,
    settingsVars, keysVars>>
exceptAgents == <<scanVars, walkVars, libVars, approvalVars, mappingVars,
    settingsVars, keysVars>>
exceptSettings == <<scanVars, walkVars, libVars, approvalVars, mappingVars,
    agentVars, keysVars>>
exceptKeys == <<scanVars, walkVars, libVars, approvalVars, mappingVars,
    agentVars, settingsVars>>

ScanState ==
    [counts |-> counts, approved |-> approved, denied |-> denied,
     lastSeen |-> lastSeen, toolUseIDToKey |-> toolUseIDToKey]

CurrentLine == scanLines[Len(scanLines)]
CurrentItem == CurrentLine.items[itemIdx]

ScanInit ==
    /\ scanPc = "open"
    /\ scanLines = <<>>
    /\ sessionTime \in SessionTimes
    /\ itemIdx = 0
    /\ counts = EmptyMap
    /\ approved = EmptyMap
    /\ denied = EmptyMap
    /\ lastSeen = EmptyMap
    /\ toolUseIDToKey = EmptyMap
    /\ scanResult = [err |-> FALSE, stats |-> {}]

\* os.Open(path)
ScanOpen ==
    /\ scanPc = "open"
    /\ \E canOpen \in BOOLEAN :
          IF canOpen
          THEN scanPc' = "lines" /\ scanResult' = scanResult
          ELSE scanPc' = "done" /\ scanResult' = parseSessionLog(FALSE, <<>>, sessionTime)
    /\ UNCHANGED <<scanLines, sessionTime, itemIdx, counts, approved, denied,
                   lastSeen, toolUseIDToKey>>
    /\ UNCHANGED exceptScan

\* scanner.Scan() delivers a line, and the loop skips it or enters its items
ScanLine ==
    /\ scanPc = "lines"
    /\ Len(scanLines) < MaxLines
    /\ \E line \in ScanLineSet :
          /\ scanLines' = Append(scanLines, line)
          /\ LET outcome == LineOutcome(line)
             IN  IF outcome = "stop"
                 THEN /\ scanPc' = "done"
                      /\ scanResult' = [err |-> FALSE, stats |-> ScanStats(ScanState)]
                      /\ itemIdx' = 0
                 ELSE IF outcome = "items" /\ Len(line.items) > 0
                 THEN scanPc' = "items" /\ itemIdx' = 1 /\ scanResult' = scanResult
                 ELSE scanPc' = "lines" /\ itemIdx' = 0 /\ scanResult' = scanResult
    /\ UNCHANGED <<sessionTime, counts, approved, denied, lastSeen, toolUseIDToKey>>
    /\ UNCHANGED exceptScan

\* One content item of the current line
ScanItem ==
    /\ scanPc = "items"
    /\ LET st == ProcessItem(ScanState, CurrentItem, CurrentLine.timestamp, sessionTime)
       IN  /\ counts' = st.counts
           /\ approved' = st.approved
           /\ denied' = st.denied
           /\ lastSeen' = st.lastSeen
           /\ toolUseIDToKey' = st.toolUseIDToKey
    /\ IF itemIdx < Len(CurrentLine.items)
       THEN itemIdx' = itemIdx + 1 /\ scanPc' = "items"
       ELSE itemIdx' = 0 /\ scanPc' = "lines"
    /\ UNCHANGED <<scanLines, sessionTime, scanResult>>
    /\ UNCHANGED exceptScan

\* scanner.Scan() reports the end of the file
ScanEOF ==
    /\ scanPc = "lines"
    /\ scanPc' = "done"
    /\ scanResult' = [err |-> FALSE, stats |-> ScanStats(ScanState)]
    /\ UNCHANGED <<scanLines, sessionTime, itemIdx, counts, approved, denied,
                   lastSeen, toolUseIDToKey>>
    /\ UNCHANGED exceptScan

\* A line of the log after the one scanner.Scan() failed on: never read
ScanUnread ==
    /\ scanPc = "done"
    /\ \E n \in DOMAIN scanLines : LineOutcome(scanLines[n]) = "stop"
    /\ Len(scanLines) < MaxLines
    /\ \E line \in ScanLineSet : scanLines' = Append(scanLines, line)
    /\ UNCHANGED <<scanPc, sessionTime, itemIdx, counts, approved, denied,
                   lastSeen, toolUseIDToKey, scanResult>>
    /\ UNCHANGED exceptScan

ScanNext == ScanOpen \/ ScanLine \/ ScanItem \/ ScanEOF \/ ScanUnread

(***************************************************************************)
(* The directory walker as a state machine.  A run is one call of          *)
(* loadPermissionStatsWithCache (kind "cached") or of                      *)
(* LoadAllPermissionStatsFromWithProgress (kind "uncached"), both with a   *)
(* nil progress channel; between runs the file system may change.          *)
(***************************************************************************)

\* The number of file system changes a behaviour makes
MaxEdits == 1
\* The number of runs a behaviour makes
MaxRuns == 2

ProjectsDir == "/h/.claude/projects"

DirEntries ==
    <<[name |-> "-a", isDir |-> TRUE],
      [name |-> "-x", isDir |-> TRUE],
      [name |-> "b-c", isDir |-> TRUE],
      [name |-> "notes.txt", isDir |-> FALSE]>>

\* The project directories that hold sessions; "-x" holds no session index
ProjectDirs == {"-a", "b-c"}

SessionPath(project, id) == Join(Join(ProjectsDir, project), id \o ".jsonl")

Session1 == "5e1f0c9a-0001"
Session2 == "5e1f0c9a-0002"

SessionPaths ==
    {SessionPath("-a", Session1), SessionPath("-a", Session2),
     SessionPath("b-c", Session1)}

BaseIndexes ==
    [name \in ProjectDirs \cup {"-x"} |->
        IF name = "-a"
        THEN [status |-> "ok",
              entries |-> <<SessionEntry(Session1, 2000, TsAt(5)),
                            SessionEntry(Session2, 7900, TsEmpty)>>]
        ELSE IF name = "-x"
        THEN [status |-> "missing", entries |-> <<>>]
        ELSE [status |-> "ok",
              entries |-> <<SessionEntry(Session1, 9000, TsBad)>>]]


FileOf(content, mtime) == [status |-> "ok", mtime |-> mtime, content |-> content]

BaseFiles ==
    [path \in SessionPaths |->
        IF path = SessionPath("-a", Session2) THEN FileOf("C", 1)
        ELSE FileOf("A", 1)]

\* The cache file: status "json", "garbage", "unreadable" or "missing" (see
\* loadCache).  At first it is as a run of the agent pass left it: no
\* session entries
AgentCacheFile ==
    [status |-> "json",
     cache  |-> [newCache EXCEPT
                   !.AgentMappings = MapPut(EmptyMap, SessionPath("-a", Session1),
                        [FileHash |-> "1:300", Mappings |-> MapPut(EmptyMap, "a1", "Explore")]),
                   !.AgentSessions = MapPut(EmptyMap, Join(Join(ProjectsDir, "-a"), "agent-a1.jsonl"),
                        [FileHash |-> "1:120", Perms |-> {}, LastSeen |-> 4])]]

NoRun ==
    [valid |-> FALSE, kind |-> "", err |-> FALSE, stats |-> <<>>,
     hits |-> 0, misses |-> 0, saves |-> 0, sink |-> "nil"]

\* A progress channel (chan<- string): mode "nil" (no channel), "drained"
\* (a goroutine receives from it) or "undrained" (none does); cap is its
\* buffer's capacity, 0 for an unbuffered channel
NilSink == [mode |-> "nil", cap |-> 0]

\* "progress <- s" can proceed: an unbuffered channel needs a receiver, a
\* buffered one room in its buffer
CanSend(sink, ch) ==
    \/ sink.mode = "nil"
    \/ sink.cap = 0 /\ sink.mode = "drained"
    \/ sink.cap > 0 /\ Len(ch) < sink.cap

\* "if progress != nil { progress <- s }"
Send(sink, ch, str) ==
    IF sink.mode = "nil" \/ sink.cap = 0 THEN ch ELSE Append(ch, str)

\* "session.SessionID[:12]" panics on an id of fewer than 12 bytes
SlicePanics(id) == Len(id) < 12

\* No run has begun
WalkerAtRest ==
    /\ dir = [status |-> "ok", entries |-> DirEntries]
    /\ progress = NilSink
    /\ channel = <<>>
    /\ wpc = "idle"
    /\ kind = ""
    /\ cache = newCache
    /\ cacheHits = 0
    /\ cacheMisses = 0
    /\ statsMap = EmptyMap
    /\ projectsMap = EmptyMap
    /\ projIdx = 0
    /\ sessions = <<>>
    /\ sessIdx = 0
    /\ result = NoRun
    /\ prev = NoRun
    /\ loaded = [status |-> "missing", version |-> 0]
    /\ perFile = <<>>
    /\ saves = 0
    /\ edits = 0
    /\ runs = 0

WalkIdle ==
    /\ cacheFile = AgentCacheFile
    /\ WalkerAtRest

WalkInit ==
    /\ indexes = BaseIndexes
    /\ files = BaseFiles
    /\ WalkIdle

\* A run returns: res is what it returned and counted
Return(res) ==
    /\ result' = res
    /\ prev' = result
    /\ cache' = newCache
    /\ wpc' = "idle"

\* What a walker returns when os.ReadDir(projectsDir) fails: "return nil,
\* nil" when os.IsNotExist(err), "return nil, err" otherwise
ReadDirFailure_propagateAll(status) == [err |-> TRUE, stats |-> <<>>]

ReadDirFailure(status) ==
    IF status = "missing" THEN [err |-> FALSE, stats |-> <<>>]
    ELSE [err |-> TRUE, stats |-> <<>>]

\* The entry of either walker, up to and including os.ReadDir(projectsDir),
\* called with one of the given progress channels
WalkBegin(sinks) ==
    /\ wpc = "idle"
    /\ runs < MaxRuns
    /\ runs' = runs + 1
    /\ \E sink \in sinks : progress' = sink
    /\ channel' = <<>>
    /\ \E k \in {"cached", "uncached"} :
          /\ kind' = k
          /\ IF dir.status = "ok"
             THEN /\ wpc' = "project"
                  /\ cache' = IF k = "cached" THEN loadCache(cacheFile) ELSE newCache
                  /\ UNCHANGED <<result, prev>>
             ELSE Return([valid |-> TRUE, kind |-> k,
                          err |-> ReadDirFailure(dir.status).err,
                          stats |-> ReadDirFailure(dir.status).stats,
                          hits |-> 0, misses |-> 0, saves |-> 0,
                          sink |-> progress'.mode])
    /\ loaded' = [status |-> cacheFile.status, version |-> cacheFile.cache.Version]
    /\ cacheHits' = 0
    /\ cacheMisses' = 0
    /\ statsMap' = EmptyMap
    /\ projectsMap' = EmptyMap
    /\ projIdx' = 1
    /\ sessions' = <<>>
    /\ sessIdx' = 0
    /\ perFile' = <<>>
    /\ saves' = 0
    /\ UNCHANGED <<dir, indexes, files, cacheFile, edits>>
    /\ UNCHANGED exceptWalk

\* A call with a nil progress channel
WalkStart == WalkBegin({NilSink})

\* One iteration of "for _, entry := range entries" up to its inner loop:
\* for a directory it starts by sending the project's name
WalkProject ==
    /\ wpc = "project"
    /\ projIdx <= Len(dir.entries)
    /\ IF dir.entries[projIdx].isDir
       THEN /\ CanSend(progress, channel)
            /\ channel' = Send(progress, channel,
                               decodeProjectPath(dir.entries[projIdx].name))
       ELSE UNCHANGED channel
    /\ LET entry == dir.entries[projIdx]
           index == IF entry.isDir THEN loadSessionsIndex(indexes[entry.name])
                    ELSE [err |-> TRUE, entries |-> <<>>]
       IN  IF ~entry.isDir \/ index.err \/ Len(index.entries) = 0
           THEN /\ projIdx' = projIdx + 1
                /\ UNCHANGED <<wpc, sessions, sessIdx>>
           ELSE /\ sessions' = index.entries
                /\ sessIdx' = 1
                /\ wpc' = "session"
                /\ UNCHANGED projIdx
    /\ UNCHANGED <<dir, indexes, files, cacheFile, kind, cache, cacheHits,
                   cacheMisses, statsMap, projectsMap, result, prev,
                   loaded, perFile, saves, edits, runs, progress>>
    /\ UNCHANGED exceptWalk

CurrentProject == dir.entries[projIdx].name
CurrentSession == sessions[sessIdx]
CurrentPath == SessionPath(CurrentProject, CurrentSession.SessionID)
FileAt(path) == IF path \in DOMAIN files THEN files[path] ELSE MissingFile

\* The string a walker sends for a session
SessionUpdate(k, id) ==
    IF k = "cached" THEN "session:" \o SubSeq(id, 1, 12) \o "..."
    ELSE SubSeq(id, 1, 12) \o "..."

\* An iteration of "for _, session := range sessions" that panics
WalkPanic ==
    /\ wpc = "session"
    /\ progress.mode # "nil"
    /\ SlicePanics(CurrentSession.SessionID)
    /\ wpc' = "panic"
    /\ UNCHANGED <<dir, indexes, files, cacheFile, kind, cache, cacheHits,
                   cacheMisses, statsMap, projectsMap, projIdx, sessions,
                   sessIdx, result, prev, loaded, perFile, saves, edits, runs,
                   progress, channel>>
    /\ UNCHANGED exceptWalk

\* "if cached, ok := getCachedStats(cache, sessionPath); ok { perms = cached }
\* else { perms, err = parseSessionLog(...) }"
SessionPerms_hitEmpty(lookup, parsed) ==
    IF lookup.hit THEN {} ELSE parsed.stats

SessionPerms(lookup, parsed) ==
    IF lookup.hit THEN lookup.stats ELSE parsed.stats

\* One iteration of "for _, session := range sessions": it starts by
\* sending the session's id when there is a channel
WalkSession ==
    /\ wpc = "session"
    /\ progress.mode = "nil" \/ ~SlicePanics(CurrentSession.SessionID)
    /\ CanSend(progress, channel)
    /\ channel' = Send(progress, channel,
                       SessionUpdate(kind, CurrentSession.SessionID))
    /\ LET projectName == decodeProjectPath(CurrentProject)
           file   == FileAt(CurrentPath)
           lookup == IF kind = "cached" THEN getCachedStats(cache, CurrentPath, file)
                     ELSE [hit |-> FALSE, stats |-> {}]
           parsed == parseSessionLog(file.status = "ok", FileLines(file),
                                     SessionTime(CurrentSession))
           perms  == SessionPerms(lookup, parsed)
           agg    == MergeAll([statsMap |-> statsMap, projectsMap |-> projectsMap],
                              perms, projectName)
       IN  IF ~lookup.hit /\ parsed.err
           THEN /\ perFile' = Append(perFile, [project |-> projectName,
                                               path |-> CurrentPath,
                                               hit |-> FALSE,
                                               skipped |-> TRUE,
                                               perms |-> {}])
                /\ UNCHANGED <<cache, cacheHits, cacheMisses, statsMap, projectsMap>>
           ELSE /\ cacheHits' = IF lookup.hit THEN cacheHits + 1 ELSE cacheHits
                /\ cacheMisses' = IF ~lookup.hit /\ kind = "cached"
                                  THEN cacheMisses + 1 ELSE cacheMisses
                /\ cache' = IF ~lookup.hit /\ kind = "cached"
                            THEN setCachedStats(cache, CurrentPath, file, perms)
                            ELSE cache
                /\ statsMap' = agg.statsMap
                /\ projectsMap' = agg.projectsMap
                /\ perFile' = Append(perFile, [project |-> projectName,
                                               path |-> CurrentPath,
                                               hit |-> lookup.hit,
                                               skipped |-> FALSE,
                                               perms |-> perms])
    /\ IF sessIdx < Len(sessions)
       THEN sessIdx' = sessIdx + 1 /\ UNCHANGED <<wpc, projIdx>>
       ELSE sessIdx' = 0 /\ wpc' = "project" /\ projIdx' = projIdx + 1
    /\ UNCHANGED <<dir, indexes, files, cacheFile, kind, sessions, result, prev,
                   loaded, saves, edits, runs, progress>>
    /\ UNCHANGED exceptWalk

\* After the loops: "Save cache", "Convert and sort", return
\* (the cached walker with a channel stops after "Save cache", at the send
\* of its summary: see WalkSummary)
WalkFinish ==
    /\ wpc = "project"
    /\ projIdx > Len(dir.entries)
    /\ LET save == kind = "cached" /\ ShouldSave(cacheMisses)
       IN  /\ cacheFile' = IF save THEN [status |-> "json", cache |-> cache]
                           ELSE cacheFile
           /\ saves' = IF save THEN saves + 1 ELSE saves
           /\ IF kind = "cached" /\ progress.mode # "nil"
              THEN /\ wpc' = "summary"
                   /\ UNCHANGED <<result, prev, cache>>
              ELSE \E stats \in ConvertAndSort(kind, statsMap, projectsMap) :
                      Return([valid |-> TRUE, kind |-> kind, err |-> FALSE,
                              stats |-> stats, hits |-> cacheHits,
                              misses |-> cacheMisses,
                              saves |-> IF save THEN saves + 1 ELSE saves,
                              sink |-> progress.mode])
    /\ UNCHANGED <<dir, indexes, files, kind, cacheHits, cacheMisses,
                   statsMap, projectsMap, projIdx, sessions, sessIdx, loaded,
                   perFile, edits, runs, progress, channel>>
    /\ UNCHANGED exceptWalk

\* The cached walker given a channel: the send of the summary, "Convert
\* and sort", return
WalkSummary ==
    /\ wpc = "summary"
    /\ CanSend(progress, channel)
    /\ channel' = Send(progress, channel,
                       "Cache: " \o ToString(cacheHits) \o " hits, "
                       \o ToString(cacheMisses) \o " misses")
    /\ \E stats \in ConvertAndSort(kind, statsMap, projectsMap) :
          Return([valid |-> TRUE, kind |-> kind, err |-> FALSE,
                  stats |-> stats, hits |-> cacheHits, misses |-> cacheMisses,
                  saves |-> saves, sink |-> progress.mode])
    /\ UNCHANGED <<dir, indexes, files, cacheFile, kind, cacheHits, cacheMisses,
                   statsMap, projectsMap, projIdx, sessions, sessIdx, loaded,
                   perFile, saves, edits, runs, progress>>
    /\ UNCHANGED exceptWalk

\* The goroutine that reads the channel receives a string
Drain ==
    /\ progress.mode = "drained"
    /\ channel # <<>>
    /\ channel' = Tail(channel)
    /\ UNCHANGED <<dir, indexes, files, cacheFile, wpc, kind, cache, cacheHits,
                   cacheMisses, statsMap, projectsMap, projIdx, sessions,
                   sessIdx, result, prev, loaded, perFile, saves, edits, runs,
                   progress>>
    /\ UNCHANGED exceptWalk

(***************************************************************************)
(* The file system changing between runs.                                  *)
(***************************************************************************)
\* What every change does (one that no later run sees is left out)
Edit ==
    /\ wpc = "idle"
    /\ edits < MaxEdits
    /\ runs < MaxRuns
    /\ edits' = edits + 1
    /\ result' = NoRun
    /\ prev' = NoRun
    /\ UNCHANGED <<wpc, kind, cache, cacheHits, cacheMisses, statsMap,
                   projectsMap, projIdx, sessions, sessIdx,
                   loaded, perFile, saves, runs, progress, channel>>
    /\ UNCHANGED exceptWalk

\* A session log is rewritten, within the clock tick of its mtime or later
EnvWriteFile ==
    /\ Edit
    /\ \E path \in SessionPaths, content \in Contents, tick \in {0, 1} :
          /\ files[path].status = "ok"
          /\ tick = 1 \/ content # files[path].content
          /\ files' = [files EXCEPT ![path] = FileOf(content, @.mtime + tick)]
    /\ UNCHANGED <<dir, indexes, cacheFile>>

\* A session log is deleted, or made unreadable
EnvLoseFile ==
    /\ Edit
    /\ \E path \in SessionPaths, status \in {"missing", "unreadable"} :
          /\ files[path].status = "ok"
          /\ files' = [files EXCEPT ![path].status = status]
    /\ UNCHANGED <<dir, indexes, cacheFile>>

\* A project loses its session index, or the index is damaged
EnvBreakIndex ==
    /\ Edit
    /\ \E name \in ProjectDirs, status \in {"missing", "bad"} :
          /\ indexes[name].status = "ok"
          /\ indexes' = [indexes EXCEPT ![name].status = status]
    /\ UNCHANGED <<dir, files, cacheFile>>

\* The projects directory disappears, or can no longer be read
EnvBreakDir ==
    /\ Edit
    /\ dir.status = "ok"
    /\ \E status \in {"missing", "error"} : dir' = [dir EXCEPT !.status = status]
    /\ UNCHANGED <<indexes, files, cacheFile>>

\* The cache file is damaged, made unreadable, deleted, or replaced by the
\* file an older release wrote (same entries, an older schema version)
EnvBreakCache ==
    /\ Edit
    /\ cacheFile.status = "json"
    /\ \/ \E status \in {"garbage", "unreadable", "missing"} :
             cacheFile' = [cacheFile EXCEPT !.status = status]
       \/ /\ cacheFile.cache.Version = cacheVersion
          /\ cacheFile' = [cacheFile EXCEPT !.cache.Version = cacheVersion - 1]
    /\ UNCHANGED <<dir, indexes, files>>

WalkNext ==
    \/ WalkStart \/ WalkProject \/ WalkSession \/ WalkFinish
    \/ EnvWriteFile \/ EnvLoseFile \/ EnvBreakIndex \/ EnvBreakDir \/ EnvBreakCache

(***************************************************************************)
(* The walkers called with a progress channel, as LoadData calls them.     *)
(***************************************************************************)
\* The greatest capacity of a progress channel
ChanCap == 1

Sinks ==
    {NilSink} \cup {[mode |-> mode, cap |-> cap] :
                       mode \in {"drained", "undrained"}, cap \in 0..ChanCap}

\* An index whose second session has an id of two bytes
ShortIndexes ==
    [BaseIndexes EXCEPT !["-a"].entries[2] = SessionEntry("s2", 7900, TsEmpty)]

ProgressFiles ==
    [path \in SessionPaths \cup {SessionPath("-a", "s2")} |->
        IF path \in {SessionPath("-a", Session2), SessionPath("-a", "s2")}
        THEN FileOf("C", 1)
        ELSE FileOf("A", 1)]

ProgressInit ==
    /\ indexes \in {BaseIndexes, ShortIndexes}
    /\ files = ProgressFiles
    /\ WalkIdle

\* A call with a progress channel, or with none
ProgressStart == WalkBegin(Sinks)

ProgressNext ==
    \/ ProgressStart \/ WalkProject \/ WalkSession \/ WalkPanic
    \/ WalkFinish \/ WalkSummary \/ Drain

(***************************************************************************)
(* The two walkers over one file system that does not change, and a cache  *)
(* file that earlier runs left.                                            *)
(***************************************************************************)
\* The index entry that lists the session of a path
IndexEntryOf(path) ==
    CHOOSE entry \in UNION {{BaseIndexes[name].entries[i] :
                                i \in DOMAIN BaseIndexes[name].entries} :
                            name \in ProjectDirs} :
        \E name \in ProjectDirs : SessionPath(name, entry.SessionID) = path

\* What a run stores for a path whose file has this content
StoredStats(path, content) ==
    parseSessionLog(TRUE, ContentOf(content).lines,
                    SessionTime(IndexEntryOf(path))).stats

\* The other content of the same size
SameSizeContent(content) == IF content = "A" THEN "B" ELSE "A"

\* The entry the cache file holds for a path: stored from the content the
\* file has ("current"), or from another content of the same size written
\* within the clock tick of the file's mtime ("stale")
StoredEntry(path, file, how) ==
    [FileHash |-> fileHash(file).hash,
     Stats |-> StoredStats(path, IF how = "current" THEN file.content
                                 ELSE SameSizeContent(file.content))]

EquivFileSets ==
    {[path \in SessionPaths |->
         IF path = SessionPath("-a", Session1) THEN f1
         ELSE IF path = SessionPath("-a", Session2) THEN f2
         ELSE f3] :
        f1 \in {FileOf("A", 1), FileOf("B", 1),
                [FileOf("A", 1) EXCEPT !.status = "unreadable"]},
        f2 \in {FileOf("C", 1), MissingFile},
        f3 \in {FileOf("A", 1), FileOf("B", 1)}}

EquivInit ==
    /\ indexes = BaseIndexes
    /\ files \in EquivFileSets
    /\ \E how \in [SessionPaths -> {"none", "current", "stale"}] :
          /\ \A path \in SessionPaths :
                /\ how[path] = "stale" => path = SessionPath("b-c", Session1)
                /\ how[path] # "none" => files[path].status # "missing"
          /\ cacheFile =
                [status |-> "json",
                 cache |-> [newCache EXCEPT !.Sessions =
                              [path \in {q \in SessionPaths : how[q] # "none"} |->
                                  StoredEntry(path, files[path], how[path])]]]
    /\ WalkerAtRest

EquivNext == WalkStart \/ WalkProject \/ WalkSession \/ WalkFinish

(***************************************************************************)
(* The string functions as a state machine: a caller applies one of them   *)
(* to an input drawn from a bounded set.  The functions keep no state, so  *)
(* one call per behaviour covers them.                                     *)
(***************************************************************************)
\* The number of words of a generated command text
MaxWords == 2
\* The number of bytes of a generated signature string
MaxSigLen == 4
\* The number of bytes of a generated project directory name
MaxNameLen == 4

\* The strings of at most n bytes over an alphabet
RECURSIVE StringsOver(_, _)
StringsOver(alphabet, n) ==
    IF n = 0 THEN {""}
    ELSE LET shorter == StringsOver(alphabet, n - 1)
         IN  shorter \cup {t \o c : t \in shorter, c \in alphabet}

CommandWords ==
    {"git", "go", "npm", "yarn", "bun", "cargo", "docker", "curl", "gitk",
     "-C", "status", "-s"}

\* The command texts of at most n words, single spaces between them
RECURSIVE CommandsOf(_)
CommandsOf(n) ==
    IF n = 0 THEN {""}
    ELSE LET shorter == CommandsOf(n - 1)
         IN  shorter \cup {IF c = "" THEN w ELSE c \o " " \o w :
                              c \in shorter, w \in CommandWords}

Commands ==
    CommandsOf(MaxWords)
    \cup {" ", "\t\n", "  git   status ", "git\tstatus", " git", "npm ",
          "git -C /repo status", "curl -s https://example.com",
          "docker compose up -d", "git --version"}

ToolNames == {"Bash", "Skill", "Read", "Task"}

InputPayloads ==
    {NoInput, OtherInput, ObjectInput,
     [json |-> "object", command |-> "ls", skill |-> "review"]}
    \cup {BashInput(c) : c \in Commands}
    \cup {SkillInput(x) : x \in {"review", "pdf tools"}}

SignatureStrings ==
    StringsOver({"a", "(", ")", " "}, MaxSigLen)
    \cup {"Read", " Read", "Bash(git status:*)", "Bash(curl:*) ", "Bash(*)",
          "mcp__srv__tool", "Bash(a)(b)", "Bash(echo (x))", "Skill(review)",
          "Bash()", "Web-Fetch", "\tBash(ls:*)\n"}

MatchStrings ==
    {"Bash", "Bash(*)", "Bash(git status:*)", "Bash(curl:*)", "Read",
     "Read(*)", "Skill(review)", " Bash", "Bash(curl:*) ", "Bash()",
     "Bash(git status:*)(x)", ""}

EncodedNames ==
    StringsOver({"-", "a", "."}, MaxNameLen)
    \cup {"-Users-alice-code-app", "local-project"}

NoCall == [fn |-> "", args |-> <<>>]

LibInit ==
    /\ libCall = NoCall
    /\ libRet = ""

CallExtractPermissionScope ==
    /\ libCall = NoCall
    /\ \E toolName \in ToolNames, input \in InputPayloads :
          /\ libCall' = [fn |-> "ExtractPermissionScope", args |-> <<toolName, input>>]
          /\ libRet' = ExtractPermissionScope(toolName, input)
    /\ UNCHANGED exceptLib

CallParsePermission ==
    /\ libCall = NoCall
    /\ \E raw \in SignatureStrings :
          /\ libCall' = [fn |-> "ParsePermission", args |-> <<raw>>]
          /\ libRet' = ParsePermission(raw)
    /\ UNCHANGED exceptLib

CallMatchesPermission ==
    /\ libCall = NoCall
    /\ \E perm \in MatchStrings, pattern \in MatchStrings :
          /\ libCall' = [fn |-> "matchesPermission", args |-> <<perm, pattern>>]
          /\ libRet' = matchesPermission(perm, pattern)
    /\ UNCHANGED exceptLib

CallDecodeProjectPath ==
    /\ libCall = NoCall
    /\ \E encoded \in EncodedNames :
          /\ libCall' = [fn |-> "decodeProjectPath", args |-> <<encoded>>]
          /\ libRet' = decodeProjectPath(encoded)
    /\ UNCHANGED exceptLib

\* The number of PermissionStats of a generated list
MaxStats == 3

\* Stat(signature, count, approved, denied, lastSeen, approvedAt)
Stat(raw, count, nApproved, nDenied, seen, level) ==
    [Permission |-> ParsePermission(raw), Count |-> count,
     Approved |-> nApproved, Denied |-> nDenied, LastSeen |-> seen,
     Projects |-> <<"/a">>, ApprovedAt |-> level]

StatPool ==
    {Stat("Bash(git status:*)", 5, 4, 1, 3, ApprovedUser),
     Stat("Bash(curl:*)", 3, 0, 2, 7, NotApproved),
     Stat("Read", 1, 1, 0, 5, ApprovedProject),
     Stat("Bash", 3, 3, 0, 2, ApprovedProject),
     Stat("Read(/etc/hosts)", 8, 2, 0, 9, NotApproved),
     Stat("Skill(review)", 5, 0, 0, 1, ApprovedUser),
     Stat("Bash(ls:*)", 1, 0, 1, 4, NotApproved)}

StatLists == UNION {[1..n -> StatPool] : n \in 0..MaxStats}

CallGroupPermissions ==
    /\ libCall = NoCall
    /\ \E stats \in StatLists :
       \E groups \in GroupPermissions(stats) :
          /\ libCall' = [fn |-> "GroupPermissions", args |-> <<stats>>]
          /\ libRet' = groups
    /\ UNCHANGED exceptLib

\* The three maps of the cache, the paths and files of a call, and what the
\* maps may hold before it
CacheMaps == {"Sessions", "AgentMappings", "AgentSessions"}
CachePaths == {"p1", "p2", "p3"}
CacheFiles == {MissingFile, FileOf("A", 1), FileOf("A", 2), FileOf("B", 1)}

SessionsEntry(hash, stats) == [FileHash |-> hash, Stats |-> stats]
MappingsEntry(hash, mappings) == [FileHash |-> hash, Mappings |-> mappings]
AgentSessionEntry(hash, perms, seen) ==
    [FileHash |-> hash, Perms |-> perms, LastSeen |-> seen]

\* The values a call stores: Stats, Mappings, or Perms with LastSeen
CacheValues(map) ==
    IF map = "Sessions" THEN {[stats |-> {}], [stats |-> {"Read"}]}
    ELSE IF map = "AgentMappings"
    THEN {[mappings |-> EmptyMap], [mappings |-> MapPut(EmptyMap, "a1", "Explore")]}
    ELSE {[perms |-> {}, lastSeen |-> 0], [perms |-> {"Read"}, lastSeen |-> 5]}

HashOf(file) == fileHash(file).hash

CachePool ==
    {[Version |-> cacheVersion, Sessions |-> ses, AgentMappings |-> map,
      AgentSessions |-> ags] :
        ses \in {EmptyMap,
                 MapPut(EmptyMap, "p1", SessionsEntry(HashOf(FileOf("A", 1)), {"Bash"})),
                 MapPut(MapPut(EmptyMap, "p1", SessionsEntry(HashOf(FileOf("A", 2)), {})),
                        "p2", SessionsEntry(HashOf(FileOf("B", 1)), {"Bash"}))},
        map \in {EmptyMap,
                 MapPut(EmptyMap, "p1",
                        MappingsEntry(HashOf(FileOf("A", 1)),
                                      MapPut(EmptyMap, "a2", "Plan"))),
                 MapPut(MapPut(EmptyMap, "p1",
                               MappingsEntry(HashOf(FileOf("A", 2)), EmptyMap)),
                        "p2", MappingsEntry(HashOf(FileOf("B", 1)),
                                            MapPut(EmptyMap, "a2", "Plan")))},
        ags \in {EmptyMap,
                 MapPut(EmptyMap, "p1",
                        AgentSessionEntry(HashOf(FileOf("A", 1)), {"Bash"}, 3)),
                 MapPut(MapPut(EmptyMap, "p1",
                               AgentSessionEntry(HashOf(FileOf("A", 2)), {}, 0)),
                        "p2", AgentSessionEntry(HashOf(FileOf("B", 1)), {"Bash"}, 3))}}

\* The setter and the getter of a map
CacheSet(map, c, path, file, value) ==
    IF map = "Sessions" THEN setCachedStats(c, path, file, value.stats)
    ELSE IF map = "AgentMappings"
    THEN setCachedAgentMappings(c, path, file, value.mappings)
    ELSE setCachedAgentSession(c, path, file, value.perms, value.lastSeen)

CacheGet(map, c, path, file) ==
    IF map = "Sessions"
    THEN LET got == getCachedStats(c, path, file)
         IN  [hit |-> got.hit, value |-> [stats |-> got.stats]]
    ELSE IF map = "AgentMappings"
    THEN LET got == getCachedAgentMappings(c, path, file)
         IN  [hit |-> got.hit, value |-> [mappings |-> got.mappings]]
    ELSE LET got == getCachedAgentSession(c, path, file)
         IN  [hit |-> got.hit,
              value |-> [perms |-> got.perms, lastSeen |-> got.lastSeen]]

\* A set, and the get that follows it with the file as it was
CallCacheSet ==
    /\ libCall = NoCall
    /\ \E map \in CacheMaps, c \in CachePool, path \in CachePaths,
          file \in CacheFiles :
       \E value \in CacheValues(map) :
          LET after == CacheSet(map, c, path, file, value)
          IN  /\ libCall' = [fn |-> "setCached", args |-> <<map, c, path, file, value>>]
              /\ libRet' = [after |-> after,
                            got |-> CacheGet(map, after, path, file)]
    /\ UNCHANGED exceptLib

\* The number of per-file results a call merges
MaxMerged == 3

\* What the scan (or the cache) gave for a file: the project's name and
\* the file's PermissionStats, one per signature
FileResult(projectName, perms) == [project |-> projectName, perms |-> perms]

FileResultPool ==
    {FileResult("/a", {Stat("Bash(git status:*)", 2, 1, 0, 4, NotApproved),
                       Stat("Read", 1, 0, 0, 9, NotApproved)}),
     FileResult("b/c", {Stat("Bash(git status:*)", 1, 0, 1, 6, NotApproved)}),
     FileResult("/a", {Stat("Read", 2, 1, 0, 6, NotApproved),
                       Stat("Bash(curl:*)", 1, 0, 0, 2, NotApproved)}),
     FileResult("b/c", {})}

FileResultLists == UNION {[1..n -> FileResultPool] : n \in 0..MaxMerged}

\* The "Aggregate stats" loop run for each file of a list, in its order
RECURSIVE MergeFiles(_, _, _)
MergeFiles(agg, list, i) ==
    IF i > Len(list) THEN agg
    ELSE MergeFiles(MergeAll(agg, list[i].perms, list[i].project), list, i + 1)

\* The per-file results merged in the order visited, and in another order
CallMergeFiles ==
    /\ libCall = NoCall
    /\ \E list \in FileResultLists :
       \E order \in RangeOrders(DOMAIN list) :
          LET start == [statsMap |-> EmptyMap, projectsMap |-> EmptyMap]
              other == [i \in DOMAIN list |-> list[order[i]]]
          IN  /\ libCall' = [fn |-> "MergeFiles", args |-> <<list, order>>]
              /\ libRet' = [visited |-> MergeFiles(start, list, 1),
                            reordered |-> MergeFiles(start, other, 1)]
    /\ UNCHANGED exceptLib

\* The number of records of a log whose times are looked at
MaxRecords == 2

\* Index entries: with a modified time that parses, that is the zero time
\* (0001-01-01T00:00:00Z), that does not parse, or without one
TimedSessions ==
    {SessionEntry("5e1f0c9a-0001", fileMtime, modified) :
        fileMtime \in {2000, 7900},
        modified \in {TsEmpty, TsBad, TsAt(5), TsAt(0)}}

\* Records with and without a timestamp of their own
TimedRecords ==
    {Record(TsAt(4), <<ToolUse("t1", "Read", ObjectInput)>>),
     Record(TsEmpty, <<ToolUse("t2", "Read", ObjectInput),
                       ToolUse("t3", "Bash", BashInput("git status"))>>),
     Record(TsBad, <<ToolUse("t4", "Bash", BashInput("git status"))>>),
     Record(TsAt(9), <<ToolUse("t5", "Read", ObjectInput)>>),
     Record(TsAt(1), <<ToolUse("t6", "Bash", BashInput("git status"))>>)}

TimedLogs == UNION {[1..n -> TimedRecords] : n \in 0..MaxRecords}

\* "Parse modified time", then parseSessionLog(sessionPath, sessionTime)
CallParseSessionLog ==
    /\ libCall = NoCall
    /\ \E session \in TimedSessions, lines \in TimedLogs :
          /\ libCall' = [fn |-> "parseSessionLog", args |-> <<session, lines>>]
          /\ libRet' = [sessionTime |-> SessionTime(session),
                        stats |-> parseSessionLog(TRUE, lines,
                                                  SessionTime(session)).stats]
    /\ UNCHANGED exceptLib

\* The command texts of Bash invocations: those of Commands, and texts
\* whose first word holds a parenthesis
BashCommandTexts ==
    Commands \cup {"(cd /tmp && ls)", "$(pwd)/run.sh -v", "f() { :; }; f",
                   "echo) x", "git $(cat cmd)", "ls"}

\* The tool_use branch of parseSessionLog for a Bash invocation: the
\* signature, what it parses to, and whether the pattern "Bash" covers it
CallBashSignature ==
    /\ libCall = NoCall
    /\ \E command \in BashCommandTexts :
          LET permString == ExtractPermissionScope("Bash", BashInput(command))
          IN  /\ libCall' = [fn |-> "BashSignature", args |-> <<command>>]
              /\ libRet' = [signature |-> permString,
                            permission |-> ParsePermission(permString),
                            covered |-> matchesPermission(permString, "Bash")]
    /\ UNCHANGED exceptLib

LibNext ==
    \/ CallExtractPermissionScope
    \/ CallParsePermission
    \/ CallMatchesPermission
    \/ CallDecodeProjectPath
    \/ CallGroupPermissions
    \/ CallCacheSet
    \/ CallMergeFiles
    \/ CallParseSessionLog
    \/ CallBashSignature

(***************************************************************************)
(* LoadData's approval step as a state machine: the two settings files are *)
(* read, then each permission the walker returned is classified.           *)
(***************************************************************************)
\* The number of entries of a settings file's allow list
MaxAllow == 2

AllowPatterns == {"Bash(git status:*)", "Bash(*)", "Read", "Skill"}

\* The allow lists a settings file may hold (none when it is missing or
\* does not parse: LoadData drops the error)
AllowLists == UNION {[1..n -> AllowPatterns] : n \in 0..MaxAllow}

\* What the walker returned, not yet classified
WalkerPermissions ==
    <<[Raw |-> "Bash(git status:*)", ApprovedAt |-> NotApproved],
      [Raw |-> "Read", ApprovedAt |-> NotApproved],
      [Raw |-> "Bash(curl:*)", ApprovedAt |-> NotApproved],
      [Raw |-> "Skill(review)", ApprovedAt |-> NotApproved]>>

ApprovalInit ==
    /\ ldPc = "start"
    /\ permissions = <<>>
    /\ permIdx = 0
    /\ userApproved = <<>>
    /\ projectApproved = <<>>

\* LoadData up to its loop: the walker's result and the two allow lists
LoadSettings ==
    /\ ldPc = "start"
    /\ \E user \in AllowLists, project \in AllowLists :
          /\ userApproved' = user
          /\ projectApproved' = project
    /\ permissions' = WalkerPermissions
    /\ permIdx' = 1
    /\ ldPc' = "loop"
    /\ UNCHANGED exceptApproval

\* One iteration of "for i := range permissions"
ClassifyPermission ==
    /\ ldPc = "loop"
    /\ permIdx <= Len(permissions)
    /\ permissions' = [permissions EXCEPT ![permIdx].ApprovedAt =
                          GetApprovalLevel(permissions[permIdx].Raw,
                                           userApproved, projectApproved)]
    /\ permIdx' = permIdx + 1
    /\ ldPc' = IF permIdx = Len(permissions) THEN "done" ELSE "loop"
    /\ UNCHANGED <<userApproved, projectApproved>>
    /\ UNCHANGED exceptApproval

ApprovalNext == LoadSettings \/ ClassifyPermission

(***************************************************************************)
(* extractAgentIdMappings as a state machine, reading a parent session log *)
(* a line at a time.                                                       *)
(***************************************************************************)
\* The number of lines of a parent session log
MaxMapLines == 3

MappingInit ==
    /\ mapPc = "open"
    /\ mapLines = <<>>
    /\ pendingTasks = EmptyMap
    /\ agentIdToAgentType = EmptyMap

\* os.Open(sessionPath): on an error the function returns at once
MappingOpen ==
    /\ mapPc = "open"
    /\ \E canOpen \in BOOLEAN : mapPc' = IF canOpen THEN "lines" ELSE "done"
    /\ UNCHANGED <<mapLines, pendingTasks, agentIdToAgentType>>
    /\ UNCHANGED exceptMapping

\* scanner.Scan() finds a line: the loop body, or the end of the loop when
\* the line is too long for the buffer
MappingScanLine ==
    /\ mapPc = "lines"
    /\ Len(mapLines) < MaxMapLines
    /\ \E line \in MappingLineSet :
          LET st == MappingLine([pendingTasks |-> pendingTasks,
                                 agentIdToAgentType |-> agentIdToAgentType],
                                line)
          IN  /\ mapLines' = Append(mapLines, line)
              /\ pendingTasks' = st.pendingTasks
              /\ agentIdToAgentType' = st.agentIdToAgentType
              /\ mapPc' = IF line.shape = "long" THEN "done" ELSE "lines"
    /\ UNCHANGED exceptMapping

\* scanner.Scan() finds the end of the file: the function returns and
\* pendingTasks goes out of scope
MappingEOF ==
    /\ mapPc = "lines"
    /\ mapPc' = "done"
    /\ UNCHANGED <<mapLines, pendingTasks, agentIdToAgentType>>
    /\ UNCHANGED exceptMapping

\* The lines of the file after a line too long for the buffer: the scanner
\* has stopped and the function has returned without reading them
MappingUnread ==
    /\ mapPc = "done"
    /\ \E i \in DOMAIN mapLines : mapLines[i].shape = "long"
    /\ Len(mapLines) < MaxMapLines
    /\ \E line \in MappingLineSet : mapLines' = Append(mapLines, line)
    /\ UNCHANGED <<mapPc, pendingTasks, agentIdToAgentType>>
    /\ UNCHANGED exceptMapping

MappingNext == MappingOpen \/ MappingScanLine \/ MappingEOF \/ MappingUnread

(***************************************************************************)
(* LoadAgentUsageStatsFrom as a state machine: one step per file of the    *)
(* two passes, run after run, the logs changing between the runs.  The     *)
(* progress channel is nil.                                                *)
(***************************************************************************)
AgentPath(project, id) ==
    Join(Join(ProjectsDir, project), "agent-" \o id \o ".jsonl")
SubagentPath(project, session, id) ==
    Join(Join(Join(Join(ProjectsDir, project), session), "subagents"),
         "agent-" \o id \o ".jsonl")

\* The .jsonl files of the project directories in the order the passes
\* meet them (os.ReadDir and filepath.Glob sort by name): pass 1 reads the
\* files at a project's root other than agent-*, pass 2 the agent-* at the
\* root and then those under */subagents
AgentLayout ==
    <<[pass |-> 1, project |-> "-a", id |-> "",
       path |-> SessionPath("-a", Session1)],
      [pass |-> 1, project |-> "b-c", id |-> "",
       path |-> SessionPath("b-c", Session1)],
      [pass |-> 2, project |-> "-a", id |-> "a1",
       path |-> AgentPath("-a", "a1")],
      [pass |-> 2, project |-> "-a", id |-> "a2",
       path |-> AgentPath("-a", "a2")],
      [pass |-> 2, project |-> "b-c", id |-> "a3",
       path |-> SubagentPath("b-c", Session1, "a3")]>>

AgentPaths(pass) ==
    {AgentLayout[i].path : i \in {j \in DOMAIN AgentLayout : AgentLayout[j].pass = pass}}

\* What the globs of a run return: the files that exist
Exists(unit) == afiles[unit.path].status # "missing"
AgentUnits == SelectSeq(AgentLayout, Exists)

AgentBaseFiles ==
    [path \in AgentPaths(1) \cup AgentPaths(2) |->
        IF path = SessionPath("-a", Session1) THEN FileOf("P3", 1)
        ELSE IF path = SessionPath("b-c", Session1) THEN FileOf("P3", 1)
        ELSE IF path = AgentPath("-a", "a1") THEN FileOf("X", 1)
        ELSE IF path = AgentPath("-a", "a2") THEN FileOf("Y", 1)
        ELSE FileOf("Z", 1)]

\* The cache file as a run of the cached walker left it
WalkerCacheFile ==
    [status |-> "json",
     cache  |-> [newCache EXCEPT
                   !.Sessions = MapPut(EmptyMap, SessionPath("-a", Session1),
                        [FileHash |-> "1:300", Stats |-> {}])]]

NoAgentRun ==
    [valid |-> FALSE, dir |-> "", err |-> FALSE, stats |-> <<>>,
     mappings |-> EmptyMap, saved |-> FALSE]

AgentsInit ==
    /\ apc = "idle"
    /\ afiles = AgentBaseFiles
    /\ acacheFile = WalkerCacheFile
    /\ acache = newCache
    /\ cacheDirty = FALSE
    /\ aIdx = 0
    /\ agentIdToType = EmptyMap
    /\ agentStats = EmptyMap
    /\ aresult = NoAgentRun
    /\ aperFile = <<>>
    /\ aruns = 0
    /\ aedits = 0

\* The entry of the function up to the first pass: os.ReadDir succeeds, or
\* fails because the directory does not exist or for another reason
AgentsStart ==
    /\ apc = "idle"
    /\ aruns < MaxRuns
    /\ aruns' = aruns + 1
    /\ \E status \in {"ok", "missing", "error"} :
          IF status = "ok"
          THEN /\ apc' = "scan"
               /\ acache' = loadCache(acacheFile)
               /\ aIdx' = 1
               /\ UNCHANGED aresult
          ELSE /\ aresult' = [valid |-> TRUE, dir |-> status,
                              err |-> ReadDirFailure(status).err,
                              stats |-> <<>>, mappings |-> EmptyMap,
                              saved |-> FALSE]
               /\ UNCHANGED <<apc, acache, aIdx>>
    /\ cacheDirty' = FALSE
    /\ agentIdToType' = EmptyMap
    /\ agentStats' = EmptyMap
    /\ aperFile' = <<>>
    /\ UNCHANGED <<afiles, acacheFile, aedits>>
    /\ UNCHANGED exceptAgents

\* One iteration of "for _, sessionFile := range sessionFiles" (first pass)
AgentsSession ==
    /\ apc = "scan"
    /\ aIdx <= Len(AgentUnits)
    /\ AgentUnits[aIdx].pass = 1
    /\ LET path   == AgentUnits[aIdx].path
           file   == afiles[path]
           lookup == getCachedAgentMappings(acache, path, file)
           localMap == extractAgentIdMappings(file.status = "ok", FileLines(file))
       IN  IF lookup.hit
           THEN /\ agentIdToType' = MapMerge(agentIdToType, lookup.mappings)
                /\ UNCHANGED <<acache, cacheDirty>>
           ELSE /\ agentIdToType' = MapMerge(agentIdToType, localMap)
                /\ acache' = setCachedAgentMappings(acache, path, file, localMap)
                /\ cacheDirty' = TRUE
    /\ aIdx' = aIdx + 1
    /\ UNCHANGED <<apc, afiles, acacheFile, agentStats, aresult, aperFile,
                   aruns, aedits>>
    /\ UNCHANGED exceptAgents

\* One iteration of "for _, agentFile := range agentFiles" (second pass)
AgentsFile ==
    /\ apc = "scan"
    /\ aIdx <= Len(AgentUnits)
    /\ AgentUnits[aIdx].pass = 2
    /\ LET agentFile   == AgentUnits[aIdx].path
           projectName == decodeProjectPath(AgentUnits[aIdx].project)
           file        == afiles[agentFile]
           agentId     == AgentIdOf(agentFile)
           lookup      == getCachedAgentSession(acache, agentFile, file)
           parsed      == parseAgentSession(file.status = "ok", FileLines(file))
           perms       == IF lookup.hit THEN lookup.perms ELSE parsed.perms
           fileTime    == IF lookup.hit THEN lookup.lastSeen ELSE parsed.lastSeen
           agentType   == AgentTypeOf(agentIdToType, agentId)
       IN  /\ acache' = IF lookup.hit THEN acache
                        ELSE setCachedAgentSession(acache, agentFile, file,
                                                   perms, fileTime)
           /\ cacheDirty' = (cacheDirty \/ ~lookup.hit)
           /\ agentStats' = AttributeFile(agentStats, agentType, agentFile,
                                          projectName, perms, fileTime)
           /\ aperFile' = Append(aperFile,
                             [path |-> agentFile, agentId |-> agentId,
                              agentType |-> agentType, hit |-> lookup.hit,
                              perms |-> perms])
    /\ aIdx' = aIdx + 1
    /\ UNCHANGED <<apc, afiles, acacheFile, agentIdToType, aresult, aruns, aedits>>
    /\ UNCHANGED exceptAgents

\* After the loops: "Save unified cache if anything changed", "Convert to
\* output slice", the sort, return
AgentsFinish ==
    /\ apc = "scan"
    /\ aIdx > Len(AgentUnits)
    /\ acacheFile' = IF cacheDirty THEN [status |-> "json", cache |-> acache]
                     ELSE acacheFile
    /\ \E stats \in ConvertAgentStats(agentStats) :
          aresult' = [valid |-> TRUE, dir |-> "ok", err |-> FALSE,
                      stats |-> stats, mappings |-> agentIdToType,
                      saved |-> cacheDirty]
    /\ apc' = "idle"
    /\ acache' = newCache
    /\ UNCHANGED <<afiles, cacheDirty, aIdx, agentIdToType, agentStats,
                   aperFile, aruns, aedits>>
    /\ UNCHANGED exceptAgents

\* What every change of the file system does
AgentsEdit ==
    /\ apc = "idle"
    /\ aedits < MaxEdits
    /\ aruns < MaxRuns
    /\ aedits' = aedits + 1
    /\ aresult' = NoAgentRun
    /\ UNCHANGED <<apc, acacheFile, acache, cacheDirty, aIdx, agentIdToType,
                   agentStats, aperFile, aruns>>
    /\ UNCHANGED exceptAgents

\* A log is rewritten, within the clock tick of its mtime or later
AgentsEnvWrite ==
    /\ AgentsEdit
    /\ \E pass \in {1, 2}, tick \in {0, 1} :
       \E path \in AgentPaths(pass) :
       \E content \in IF pass = 1 THEN ParentContents ELSE AgentContents :
          /\ afiles[path].status = "ok"
          /\ tick = 1 \/ content # afiles[path].content
          /\ afiles' = [afiles EXCEPT ![path] = FileOf(content, @.mtime + tick)]

\* A log is deleted, or made unreadable
AgentsEnvLose ==
    /\ AgentsEdit
    /\ \E path \in DOMAIN afiles, status \in {"missing", "unreadable"} :
          /\ afiles[path].status = "ok"
          /\ afiles' = [afiles EXCEPT ![path].status = status]

AgentsNext ==
    \/ AgentsStart \/ AgentsSession \/ AgentsFile \/ AgentsFinish
    \/ AgentsEnvWrite \/ AgentsEnvLose

(***************************************************************************)
(* settings.go: writePermissionToSettings, findPermissionLine, and         *)
(* setApplyToast.                                                          *)
(***************************************************************************)
\* A settings file: status is what os.ReadFile and json.Unmarshal make of
\* it ("ok", "missing", "unreadable", "invalid": it is not JSON, "mistyped":
\* it is JSON and its permissions.deny is not an array); allow and deny are
\* its permissions.allow and permissions.deny (deny.isNil: the key is
\* absent or null); other tells whether it holds keys that types.Settings
\* does not declare
SettingsFile(status, allow, deny, other) ==
    [status |-> status, allow |-> allow, deny |-> deny, other |-> other]

NilList == [isNil |-> TRUE, items |-> <<>>]
List(items) == [isNil |-> FALSE, items |-> items]

MissingSettings == SettingsFile("missing", <<>>, NilList, FALSE)

\* var settings types.Settings; json.Unmarshal(data, &settings): a text that
\* is not JSON leaves settings as it was; a value of the wrong type is
\* skipped, the rest is decoded, and the error is returned at the end
UnmarshalSettings(file) ==
    IF file.status = "ok" THEN [Allow |-> file.allow, Deny |-> file.deny]
    ELSE IF file.status = "mistyped" THEN [Allow |-> file.allow, Deny |-> NilList]
    ELSE [Allow |-> <<>>, Deny |-> NilList]

\* The head of writePermissionToSettings: os.ReadFile, json.Unmarshal, and
\* the error it returns ("" for none)
ReadSettings_lenient(file) ==
    [err |-> "", settings |-> UnmarshalSettings(file)]

ReadSettings(file) ==
    [err |-> IF file.status = "unreadable" THEN "read"
             ELSE IF file.status \in {"invalid", "mistyped"} THEN "parse settings"
             ELSE "",
     settings |-> UnmarshalSettings(file)]

\* "Append new permission", "Ensure deny is an empty array, not null"
MergePermission_denyDropped(settings, permission) ==
    [Allow |-> Append(settings.Allow, permission), Deny |-> List(<<>>)]

MergePermission(settings, permission) ==
    [Allow |-> Append(settings.Allow, permission),
     Deny |-> IF settings.Deny.isNil THEN List(<<>>) ELSE settings.Deny]

\* "for _, existing := range settings.Permissions.Allow": the permission is
\* an element of the list
AlreadyAllowed_never(allow, permission) == FALSE

AlreadyAllowed(allow, permission) ==
    \E i \in DOMAIN allow : allow[i] = permission

Quoted(str) == "\"" \o str \o "\""

\* The lines of a JSON array of strings, one element a line
ElementLines(items) ==
    [i \in DOMAIN items |->
        "      " \o Quoted(items[i]) \o (IF i < Len(items) THEN "," ELSE "")]

\* json.MarshalIndent(settings, "", "  "), line by line
MarshalIndent(settings) ==
    <<"{", "  \"permissions\": {">>
    \o (IF Len(settings.Allow) = 0 THEN <<"    \"allow\": [],">>
        ELSE <<"    \"allow\": [">> \o ElementLines(settings.Allow)
             \o <<"    ],">>)
    \o (IF settings.Deny.isNil THEN <<"    \"deny\": null">>
        ELSE IF Len(settings.Deny.items) = 0 THEN <<"    \"deny\": []">>
        ELSE <<"    \"deny\": [">> \o ElementLines(settings.Deny.items)
             \o <<"    ]">>)
    \o <<"  }", "}">>

\* findPermissionLine: the number of the first line that contains the
\* quoted permission, 0 when no line does
findPermissionLine(output, permission) ==
    LET hits == {i \in DOMAIN output : Contains(output[i], Quoted(permission))}
    IN  IF hits = {} THEN 0
        ELSE CHOOSE i \in hits : \A j \in hits : i <= j

ApplyResult(file, err, lineNumber, wasNew, written) ==
    [file |-> file, err |-> err, LineNumber |-> lineNumber, WasNew |-> wasNew,
     written |-> written]

\* writePermissionToSettings(path, permission) on the file at path; io is
\* what os.MkdirAll and os.WriteFile do ("ok", "mkdir" or "write": the call
\* that fails). The result carries the file as the call leaves it and
\* tells whether os.WriteFile wrote it
writePermissionToSettings(file, permission, io) ==
    IF ReadSettings(file).err # ""
    THEN ApplyResult(file, ReadSettings(file).err, 0, FALSE, FALSE)
    ELSE LET settings == ReadSettings(file).settings
         IN  IF AlreadyAllowed(settings.Allow, permission)
             THEN ApplyResult(file, "", 0, FALSE, FALSE)
             ELSE LET merged == MergePermission(settings, permission)
                      output == MarshalIndent(merged)
                  IN  IF io = "mkdir"
                      THEN ApplyResult(file, "create directory", 0, FALSE, FALSE)
                      ELSE IF io = "write"
                      THEN ApplyResult(file, "write", 0, FALSE, FALSE)
                      ELSE ApplyResult(
                               SettingsFile("ok", merged.Allow, merged.Deny, FALSE),
                               "", findPermissionLine(output, permission),
                               TRUE, TRUE)

\* setApplyToast: the message shown for a result, and for how many ticks
setApplyToast(res) ==
    IF ~res.WasNew THEN [message |-> "Already exists in", toastTicks |-> 3]
    ELSE IF res.LineNumber > 0
    THEN [message |-> "Written to path:" \o ToString(res.LineNumber),
          toastTicks |-> 4]
    ELSE [message |-> "Written to path", toastTicks |-> 4]

\* The number of calls of a behaviour
MaxApplies == 2

ApplyPermissions == {"Read", "Bash(git:*)"}
\* What an allow list may hold
ListedPermissions == ApplyPermissions \cup {"Edit"}
DenyLists == {NilList, List(<<>>), List(<<"Write">>)}
IoOutcomes == {"ok", "mkdir", "write"}

\* The settings files a call may find
SettingsFiles ==
    {MissingSettings,
     SettingsFile("unreadable", <<>>, NilList, FALSE),
     SettingsFile("invalid", <<>>, NilList, FALSE),
     SettingsFile("mistyped", <<>>, NilList, FALSE),
     SettingsFile("mistyped", <<"Read">>, NilList, TRUE)}
    \cup {SettingsFile("ok", allow, deny, other) :
            allow \in UNION {[1..n -> ListedPermissions] : n \in 0..MaxAllow},
            deny \in DenyLists, other \in BOOLEAN}

\* The number of permissions a preview is asked for
MaxRequested == 2

RequestLists == UNION {[1..n -> ApplyPermissions] : n \in 0..MaxRequested}

\* "Check which permissions are new": the requested permissions that the
\* decoded allow list does not hold, in their order
RECURSIVE NewPermissions(_, _, _)
NewPermissions_none(allow, wanted, i) == <<>>

NewPermissions(allow, wanted, i) ==
    IF i > Len(wanted) THEN <<>>
    ELSE (IF AlreadyAllowed(allow, wanted[i]) THEN <<>>
          ELSE <<wanted[i]>>)
         \o NewPermissions(allow, wanted, i + 1)

\* PreviewPermissionDiff(settingsPath, permissions) on the file at the
\* path: the error of json.Unmarshal is dropped, so the allow list is what
\* was decoded. diff is "nil", "file" (the lines of the file as it is) or
\* "context" (buildContextDiff of the old and the new formatted output)
PreviewPermissionDiff(file, wanted) ==
    LET readable == file.status \in {"ok", "invalid", "mistyped"}
        settings == IF readable THEN UnmarshalSettings(file)
                    ELSE [Allow |-> <<>>, Deny |-> NilList]
        newPerms == NewPermissions(settings.Allow, wanted, 1)
    IN  IF Len(newPerms) = 0
        THEN [allExist |-> TRUE, diff |-> IF readable THEN "file" ELSE "nil"]
        ELSE [allExist |-> FALSE, diff |-> "context"]

NoPreview ==
    [valid |-> FALSE, permissions |-> <<>>, before |-> MissingSettings,
     after |-> MissingSettings, allExist |-> FALSE, diff |-> "nil"]

SettingsIdle ==
    /\ settingsFile = MissingSettings
    /\ applied = <<>>
    /\ preview = NoPreview

SettingsInit ==
    /\ settingsFile \in SettingsFiles
    /\ applied = <<>>
    /\ preview = NoPreview

\* One call of PreviewPermissionDiff
PreviewDiff ==
    /\ ~preview.valid
    /\ UNCHANGED <<settingsFile, applied>>
    /\ \E wanted \in RequestLists :
          LET shown == PreviewPermissionDiff(settingsFile, wanted)
          IN  preview' = [valid |-> TRUE, permissions |-> wanted,
                          before |-> settingsFile, after |-> settingsFile',
                          allExist |-> shown.allExist, diff |-> shown.diff]
    /\ UNCHANGED exceptSettings

\* One call of writePermissionToSettings
ApplyPermission ==
    /\ Len(applied) < MaxApplies
    /\ \E permission \in ApplyPermissions, io \in IoOutcomes :
          LET res == writePermissionToSettings(settingsFile, permission, io)
          IN  /\ settingsFile' = res.file
              /\ applied' = Append(applied,
                                   [permission |-> permission,
                                    io |-> io,
                                    before |-> settingsFile,
                                    after |-> res.file,
                                    err |-> res.err,
                                    WasNew |-> res.WasNew,
                                    LineNumber |-> res.LineNumber,
                                    written |-> res.written,
                                    toast |-> setApplyToast(res)])
    /\ UNCHANGED preview
    /\ UNCHANGED exceptSettings

SettingsNext == ApplyPermission \/ PreviewDiff

(***************************************************************************)
(* The keyboard of the terminal program: Model, handleKeyboard and the     *)
(* handlers it calls. The handlers take a Model and return a Model, as in  *)
(* the source. Of the Model only the fields the key handlers of the        *)
(* Frequency view and of the apply modal read are kept: cursor,            *)
(* matrixCursor, the filter text, err and the approved lists are not.      *)
(***************************************************************************)
ViewFrequency == 0
ViewMatrix == 1
ViewHelp == 2

ApplyModeOptionSelect == 0
ApplyModeProjectSelect == 1

\* The sizes of what dataLoadedMsg brings
MaxGroups == 2
MaxChildren == 2
MaxProjects == 2

NewModel ==
    [activeView        |-> ViewFrequency,
     showApplyModal    |-> FALSE,
     showAgentModal    |-> FALSE,
     filtering         |-> FALSE,
     applyModalMode    |-> ApplyModeOptionSelect,
     applyOptionCursor |-> 0,
     projectListCursor |-> 0,
     groupCursor       |-> 0,
     childCursor       |-> -1,
     permissionGroups  |-> <<>>,
     agents            |-> 0]

\* Go slices are indexed from 0
GroupAt(mdl, i) == mdl.permissionGroups[i + 1]
ChildAt(grp, i) == grp.Children[i + 1]

NoPermission == [nil |-> TRUE, Projects |-> <<>>]

selectedPermission(mdl) ==
    IF Len(mdl.permissionGroups) = 0 THEN NoPermission
    ELSE IF mdl.groupCursor >= Len(mdl.permissionGroups) THEN NoPermission
    ELSE LET grp == GroupAt(mdl, mdl.groupCursor)
         IN  IF mdl.childCursor >= 0 /\ mdl.childCursor < Len(grp.Children)
             THEN ChildAt(grp, mdl.childCursor)
             ELSE IF Len(grp.Children) > 0 THEN ChildAt(grp, 0)
             ELSE NoPermission

\* navigateDown with the step to the next group taken from the last one too
navigateDown_pastEnd(mdl) ==
    IF Len(mdl.permissionGroups) = 0 THEN mdl
    ELSE LET grp == GroupAt(mdl, mdl.groupCursor)
         IN  IF mdl.childCursor = -1
             THEN IF grp.Expanded /\ Len(grp.Children) > 0
                  THEN [mdl EXCEPT !.childCursor = 0]
                  ELSE [mdl EXCEPT !.groupCursor = @ + 1]
             ELSE IF mdl.childCursor < Len(grp.Children) - 1
                  THEN [mdl EXCEPT !.childCursor = @ + 1]
                  ELSE [mdl EXCEPT !.groupCursor = @ + 1, !.childCursor = -1]

\* updateFreqScroll moves freqScroll only
navigateDown(mdl) ==
    IF Len(mdl.permissionGroups) = 0 THEN mdl
    ELSE LET grp == GroupAt(mdl, mdl.groupCursor)
         IN  IF mdl.childCursor = -1
             THEN IF grp.Expanded /\ Len(grp.Children) > 0
                  THEN [mdl EXCEPT !.childCursor = 0]
                  ELSE IF mdl.groupCursor < Len(mdl.permissionGroups) - 1
                       THEN [mdl EXCEPT !.groupCursor = @ + 1]
                       ELSE mdl
             ELSE IF mdl.childCursor < Len(grp.Children) - 1
                  THEN [mdl EXCEPT !.childCursor = @ + 1]
                  ELSE IF mdl.groupCursor < Len(mdl.permissionGroups) - 1
                       THEN [mdl EXCEPT !.groupCursor = @ + 1,
                                        !.childCursor = -1]
                       ELSE mdl

navigateUp(mdl) ==
    IF Len(mdl.permissionGroups) = 0 THEN mdl
    ELSE IF mdl.childCursor = -1
         THEN IF mdl.groupCursor > 0
              THEN LET prevGroup == GroupAt(mdl, mdl.groupCursor - 1)
                   IN  IF prevGroup.Expanded /\ Len(prevGroup.Children) > 0
                       THEN [mdl EXCEPT !.groupCursor = @ - 1,
                                        !.childCursor = Len(prevGroup.Children) - 1]
                       ELSE [mdl EXCEPT !.groupCursor = @ - 1]
              ELSE mdl
         ELSE IF mdl.childCursor > 0
              THEN [mdl EXCEPT !.childCursor = @ - 1]
              ELSE [mdl EXCEPT !.childCursor = -1]

resetApplyModalState(mdl) ==
    [mdl EXCEPT !.applyModalMode = ApplyModeOptionSelect,
                !.applyOptionCursor = 0,
                !.projectListCursor = 0]

\* What an Update returns: the Model, and tea.Quit or no command
Stay(mdl) == [model |-> mdl, quit |-> FALSE]
Quit(mdl) == [model |-> mdl, quit |-> TRUE]

CloseApplyModal(mdl) ==
    resetApplyModalState([mdl EXCEPT !.showApplyModal = FALSE])

\* written: WritePermissionToUserSettings returned no error
applyToUser(mdl, written) ==
    IF selectedPermission(mdl).nil THEN Stay(mdl)
    ELSE IF ~written THEN Stay(mdl)
    ELSE Stay(CloseApplyModal(mdl))

\* written: WritePermissionToProjectSettings returned no error
applyToProject(mdl, written) ==
    LET perm == selectedPermission(mdl)
    IN  IF perm.nil \/ mdl.projectListCursor >= Len(perm.Projects)
        THEN Stay(mdl)
        ELSE IF ~written THEN Stay(mdl)
        ELSE Stay(CloseApplyModal(mdl))

handleOptionSelectKeys(mdl, pressed, written) ==
    CASE pressed \in {"esc", "q"} -> Stay(CloseApplyModal(mdl))
      [] pressed \in {"j", "down"} ->
            Stay(IF mdl.applyOptionCursor < 1
                 THEN [mdl EXCEPT !.applyOptionCursor = @ + 1] ELSE mdl)
      [] pressed \in {"k", "up"} ->
            Stay(IF mdl.applyOptionCursor > 0
                 THEN [mdl EXCEPT !.applyOptionCursor = @ - 1] ELSE mdl)
      [] pressed \in {"enter", " "} ->
            IF mdl.applyOptionCursor = 0 THEN applyToUser(mdl, written)
            ELSE Stay([mdl EXCEPT !.applyModalMode = ApplyModeProjectSelect,
                                  !.projectListCursor = 0])
      [] pressed = "ctrl+c" -> Quit(mdl)
      [] OTHER -> Stay(mdl)

\* handleProjectSelectKeys with "j" moving the cursor whatever the list
handleProjectSelectKeys_unbounded(mdl, pressed, written) ==
    IF selectedPermission(mdl).nil THEN Stay(mdl)
    ELSE CASE pressed = "esc" ->
                Stay([mdl EXCEPT !.applyModalMode = ApplyModeOptionSelect])
           [] pressed = "q" -> Stay(CloseApplyModal(mdl))
           [] pressed \in {"j", "down"} ->
                Stay([mdl EXCEPT !.projectListCursor = @ + 1])
           [] pressed \in {"k", "up"} ->
                Stay(IF mdl.projectListCursor > 0
                     THEN [mdl EXCEPT !.projectListCursor = @ - 1] ELSE mdl)
           [] pressed \in {"enter", " "} -> applyToProject(mdl, written)
           [] pressed = "ctrl+c" -> Quit(mdl)
           [] OTHER -> Stay(mdl)

handleProjectSelectKeys(mdl, pressed, written) ==
    LET perm == selectedPermission(mdl)
        maxIdx == Len(perm.Projects) - 1
    IN  IF perm.nil THEN Stay(mdl)
        ELSE CASE pressed = "esc" ->
                    Stay([mdl EXCEPT !.applyModalMode = ApplyModeOptionSelect])
               [] pressed = "q" -> Stay(CloseApplyModal(mdl))
               [] pressed \in {"j", "down"} ->
                    Stay(IF mdl.projectListCursor < maxIdx
                         THEN [mdl EXCEPT !.projectListCursor = @ + 1]
                         ELSE mdl)
               [] pressed \in {"k", "up"} ->
                    Stay(IF mdl.projectListCursor > 0
                         THEN [mdl EXCEPT !.projectListCursor = @ - 1]
                         ELSE mdl)
               [] pressed \in {"enter", " "} -> applyToProject(mdl, written)
               [] pressed = "ctrl+c" -> Quit(mdl)
               [] OTHER -> Stay(mdl)

handleModalKeys(mdl, pressed, written) ==
    CASE mdl.applyModalMode = ApplyModeOptionSelect ->
            handleOptionSelectKeys(mdl, pressed, written)
      [] mdl.applyModalMode = ApplyModeProjectSelect ->
            handleProjectSelectKeys(mdl, pressed, written)
      [] OTHER -> Stay(mdl)

\* The text input takes every other key; applyFilter sets filteredIndices
\* and cursor
handleFilterKeys(mdl, pressed) ==
    CASE pressed \in {"enter", "esc"} -> Stay([mdl EXCEPT !.filtering = FALSE])
      [] pressed = "ctrl+c" -> Quit(mdl)
      [] OTHER -> Stay(mdl)

\* The agent modal has a state of its own (mode, cursors, selections) that
\* is not kept here: closes says whether a key that can close it, in some
\* mode, does. None of its handlers writes a field kept here but
\* showAgentModal.
handleAgentModalKeys(mdl, pressed, closes) ==
    CASE pressed = "ctrl+c" -> Quit(mdl)
      [] pressed \in {"esc", "q", "enter", " "} ->
            Stay(IF closes THEN [mdl EXCEPT !.showAgentModal = FALSE] ELSE mdl)
      [] OTHER -> Stay(mdl)

\* "enter" in the Frequency view
ToggleOrOpen(mdl) ==
    LET toggled ==
            IF mdl.childCursor = -1 /\ mdl.groupCursor < Len(mdl.permissionGroups)
            THEN [mdl EXCEPT !.permissionGroups[mdl.groupCursor + 1].Expanded = ~@]
            ELSE mdl
    IN  IF toggled.childCursor >= 0
        THEN [resetApplyModalState(toggled) EXCEPT !.showApplyModal = TRUE]
        ELSE toggled

\* handleKeyboard(msg). chance stands for the one thing the handler asks
\* that is not kept here: whether the write of the permission succeeded,
\* whether the agent modal closes, whether matrixCursor < len(m.agents).
handleKeyboard(mdl, pressed, chance) ==
    IF mdl.showAgentModal THEN handleAgentModalKeys(mdl, pressed, chance)
    ELSE IF mdl.showApplyModal THEN handleModalKeys(mdl, pressed, chance)
    ELSE IF mdl.filtering THEN handleFilterKeys(mdl, pressed)
    ELSE CASE pressed \in {"q", "ctrl+c"} -> Quit(mdl)
           [] pressed \in {"j", "down"} ->
                Stay(IF mdl.activeView = ViewFrequency THEN navigateDown(mdl)
                     ELSE mdl)
           [] pressed \in {"k", "up"} ->
                Stay(IF mdl.activeView = ViewFrequency THEN navigateUp(mdl)
                     ELSE mdl)
           [] pressed \in {"g", "home"} ->
                Stay(IF mdl.activeView = ViewFrequency
                     THEN [mdl EXCEPT !.groupCursor = 0, !.childCursor = -1]
                     ELSE mdl)
           [] pressed \in {"G", "end"} ->
                Stay(IF mdl.activeView = ViewFrequency
                     THEN [mdl EXCEPT
                             !.groupCursor =
                                 IF Len(mdl.permissionGroups) - 1 < 0 THEN 0
                                 ELSE Len(mdl.permissionGroups) - 1,
                             !.childCursor = -1]
                     ELSE mdl)
           [] pressed \in {"enter", " "} ->
                Stay(CASE mdl.activeView = ViewFrequency -> ToggleOrOpen(mdl)
                       [] mdl.activeView = ViewMatrix ->
                            IF mdl.agents > 0 /\ chance
                            THEN [mdl EXCEPT !.showAgentModal = TRUE]
                            ELSE mdl
                       [] OTHER -> mdl)
           [] pressed = "tab" ->
                Stay([mdl EXCEPT !.activeView = (@ + 1) % 3])
           [] pressed = "shift+tab" ->
                Stay([mdl EXCEPT !.activeView = (@ + 2) % 3])
           [] pressed = "/" -> Stay([mdl EXCEPT !.filtering = TRUE])
           \* clears the filter; clampCursor sets cursor
           [] pressed = "esc" -> Stay(mdl)
           [] OTHER -> Stay(mdl)

\* The keys: those the handlers name, and one they do not
Keys ==
    {"q", "ctrl+c", "j", "down", "k", "up", "g", "home", "G", "end",
     "enter", " ", "tab", "shift+tab", "/", "esc", "x"}

\* What GroupPermissions returns: groups that are not expanded, of one
\* child at least, every child with one project at least
ProjectLists == {[i \in 1..n |-> i] : n \in 1..MaxProjects}

LoadedGroups(projects) ==
    {[Expanded |-> FALSE, Children |-> [i \in 1..n |-> [nil |-> FALSE, Projects |-> projects]]] :
        n \in 1..MaxChildren}

LoadedGroupLists ==
    UNION {UNION {[1..n -> LoadedGroups(projects)] : n \in 0..MaxGroups} :
              projects \in ProjectLists}

KeysInit ==
    /\ tuiModel = NewModel
    /\ tuiLoaded = FALSE
    /\ tuiQuit = FALSE

\* Update(dataLoadedMsg) with no error; clampCursor sets cursor
DataLoaded ==
    /\ ~tuiLoaded /\ ~tuiQuit
    /\ \E groups \in LoadedGroupLists, agentCount \in 0..1 :
          tuiModel' = [tuiModel EXCEPT !.permissionGroups = groups,
                                       !.agents = agentCount]
    /\ tuiLoaded' = TRUE
    /\ UNCHANGED tuiQuit
    /\ UNCHANGED exceptKeys

\* Update(tea.KeyMsg)
PressKey ==
    /\ ~tuiQuit
    /\ \E pressed \in Keys, chance \in BOOLEAN :
          LET ret == handleKeyboard(tuiModel, pressed, chance)
          IN  /\ tuiModel' = ret.model
              /\ tuiQuit' = ret.quit
    /\ UNCHANGED tuiLoaded
    /\ UNCHANGED exceptKeys

KeysNext == DataLoaded \/ PressKey

(***************************************************************************)
(* The specifications.                                                     *)
(***************************************************************************)
\* The scanner reading one log, the walker idle
InitScan == ScanInit /\ WalkInit /\ LibInit /\ ApprovalInit /\ MappingInit
    /\ AgentsInit /\ SettingsIdle /\ KeysInit

SpecScan == InitScan /\ [][ScanNext]_vars

\* Runs of the walkers over a changing file system, the scanner idle
InitWalk == ScanInit /\ WalkInit /\ LibInit /\ ApprovalInit /\ MappingInit
    /\ AgentsInit /\ SettingsIdle /\ KeysInit

SpecWalk == InitWalk /\ [][WalkNext]_vars

\* Calls of the string functions, the scanner and the walker idle
InitLib == ScanInit /\ WalkInit /\ LibInit /\ ApprovalInit /\ MappingInit
    /\ AgentsInit /\ SettingsIdle /\ KeysInit

SpecLib == InitLib /\ [][LibNext]_vars

\* LoadData classifying the walker's result, everything else idle
InitApproval == ScanInit /\ WalkInit /\ LibInit /\ ApprovalInit /\ MappingInit
    /\ AgentsInit /\ SettingsIdle /\ KeysInit

SpecApproval == InitApproval /\ [][ApprovalNext]_vars

\* One call of extractAgentIdMappings, everything else idle
InitMapping == ScanInit /\ WalkInit /\ LibInit /\ ApprovalInit /\ MappingInit
    /\ AgentsInit /\ SettingsIdle /\ KeysInit

SpecMapping == InitMapping /\ [][MappingNext]_vars

\* The agent pass, run after run over a file system that changes
InitAgents == ScanInit /\ WalkInit /\ LibInit /\ ApprovalInit /\ MappingInit
    /\ AgentsInit /\ SettingsIdle /\ KeysInit

SpecAgents == InitAgents /\ [][AgentsNext]_vars

\* The cached and the uncached walker, one after the other
InitEquiv == ScanInit /\ EquivInit /\ LibInit /\ ApprovalInit /\ MappingInit
    /\ AgentsInit /\ SettingsIdle /\ KeysInit

SpecEquiv == InitEquiv /\ [][EquivNext]_vars

\* Calls of writePermissionToSettings on one settings file
InitSettings == ScanInit /\ WalkInit /\ LibInit /\ ApprovalInit /\ MappingInit
    /\ AgentsInit /\ SettingsInit /\ KeysInit

SpecSettings == InitSettings /\ [][SettingsNext]_vars

\* The keyboard of the terminal program
InitKeys == ScanInit /\ WalkInit /\ LibInit /\ ApprovalInit /\ MappingInit
    /\ AgentsInit /\ SettingsIdle /\ KeysInit

SpecKeys == InitKeys /\ [][KeysNext]_vars

\* The walkers called with a progress channel or without one
InitProgress == ScanInit /\ ProgressInit /\ LibInit /\ ApprovalInit /\ MappingInit
    /\ AgentsInit /\ SettingsIdle /\ KeysInit

SpecProgress == InitProgress /\ [][ProgressNext]_vars

\* The same, the goroutine of the walker and the goroutine that reads the
\* channel each taking the steps they can take
\* (WalkSession is the only step that changes sessIdx, and it changes it in
\* every step: SessionAdvance is WalkSession's guard and that change, and the
\* fairness of WalkSession is stated on it)
SessionAdvance ==
    /\ wpc = "session"
    /\ progress.mode = "nil" \/ ~SlicePanics(CurrentSession.SessionID)
    /\ CanSend(progress, channel)
    /\ sessIdx' = IF sessIdx < Len(sessions) THEN sessIdx + 1 ELSE 0

SpecProgressFair ==
    /\ SpecProgress
    /\ WF_sessIdx(SessionAdvance)
    /\ WF_vars(WalkProject \/ WalkPanic \/ WalkFinish \/ WalkSummary)
    /\ WF_vars(Drain)

(***************************************************************************)
(* Properties of the scanner (checked under SpecScan).                     *)
(***************************************************************************)
\* The scanner is about to read a result whose invocation id it has recorded
KnownResult ==
    /\ scanPc = "items"
    /\ CurrentItem.type = "tool_result"
    /\ CurrentItem.tool_use_id \in DOMAIN toolUseIDToKey

\* "rejected" occurs in the payload's text: in the string it is, or in the
\* text field of one of the sub-items it lists
TextRejected(content) ==
    \/ content.json = "string" /\ Contains(content.text, "rejected")
    \/ /\ content.json = "array"
       /\ \E i \in DOMAIN content.texts : Contains(content.texts[i], "rejected")

\* "rejected" occurs somewhere in the bytes of a payload that is no string
RawRejected(content) ==
    content.json \in {"array", "other"} /\ Contains(content.raw, "rejected")

\* The step counts the result read as approved, as denied when it is an
\* error and rejected holds, and else as neither; no count changes
Classified(rejected) ==
    LET key == toolUseIDToKey[CurrentItem.tool_use_id]
    IN  /\ counts' = counts
        /\ IF ~CurrentItem.is_error
           THEN /\ approved' = MapPut(approved, key, MapInt(approved, key) + 1)
                /\ denied' = denied
           ELSE IF rejected
           THEN /\ denied' = MapPut(denied, key, MapInt(denied, key) + 1)
                /\ approved' = approved
           ELSE approved' = approved /\ denied' = denied

\* C1 as stated: a result for a recorded invocation id counts as approved
\* when is_error is false, as denied when is_error is true and the text of
\* its content contains "rejected", and as neither when is_error is true and
\* the text does not contain it; the invocation counts do not change.
C1_ResultClassifiedByText ==
    [][KnownResult => Classified(TextRejected(CurrentItem.content))]_vars

\* C1 amended: as C1, where an error result counts as denied when
\* "rejected" occurs in its string payload or, for a payload that is no
\* string, in a sub-item's text or anywhere in the payload's raw JSON, and
\* as neither otherwise.
C1_ResultClassified ==
    [][KnownResult =>
          Classified(\/ TextRejected(CurrentItem.content)
                     \/ RawRejected(CurrentItem.content))]_vars

\* An invocation, then an error result that names "rejected" only outside
\* its text, then a plain failure: one denial, no approval
C1_Witness ==
    /\ scanPc = "done"
    /\ Len(scanLines) = 3
    /\ scanLines[1].items = <<ToolUse("t1", "Bash", BashInput("git status"))>>
    /\ Len(scanLines[2].items) = 1
    /\ scanLines[2].items[1].content.json = "array"
    /\ ~TextRejected(scanLines[2].items[1].content)
    /\ scanLines[3].items = <<ToolResult("t1", TRUE, StringContent("exit status 1"))>>
    /\ MapInt(denied, "Bash(git status:*)") = 1
    /\ approved = EmptyMap

\* C2: in every PermissionStats the scanner returns, whatever the lines
\* (repeated results for one id and reused ids included),
\* Approved + Denied <= Count.
C2_OutcomesWithinCount ==
    \A stat \in scanResult.stats : stat.Approved + stat.Denied <= stat.Count

\* The lines that decoded: the loop body ran over their items
ParsedLine(line) == ~line.long /\ line.marker /\ line.json = "ok"

\* The lines the scanner was handed: those up to the first over-long one
Read(n) == \A m \in 1..n : ~scanLines[m].long

\* The places <<line, item>> of the content items the loop has been through
Processed ==
    {pos \in UNION {{<<n, i>> : i \in DOMAIN scanLines[n].items} :
                     n \in DOMAIN scanLines} :
        /\ Read(pos[1])
        /\ ParsedLine(scanLines[pos[1]])
        /\ \/ pos[1] < Len(scanLines)
           \/ scanPc # "items"
           \/ pos[2] < itemIdx}

ItemAt(pos) == scanLines[pos[1]].items[pos[2]]

\* Those of them that are tool_use items with a tool name
NamedUses == {pos \in Processed : ItemAt(pos).type = "tool_use" /\ ItemAt(pos).name # ""}

\* The signature derived from the item at a place
SignatureAt(pos) ==
    PermissionKey(ParsePermission(
        ExtractPermissionScope(ItemAt(pos).name, ItemAt(pos).input)))

Before(p, q) == p[1] < q[1] \/ (p[1] = q[1] /\ p[2] < q[2])

\* C3: the invocation count of a signature is the number of tool_use items
\* with a tool name, in the lines that parsed, that derive it; an invocation
\* id maps to the signature of the last such item that carried it (and only
\* non-empty ids are mapped); and the scanner returns exactly one
\* PermissionStats per signature, with that count.
C3_OneStatsPerSignature ==
    /\ DOMAIN counts = {SignatureAt(pos) : pos \in NamedUses}
    /\ \A key \in DOMAIN counts :
          counts[key] = Cardinality({pos \in NamedUses : SignatureAt(pos) = key})
    /\ DOMAIN toolUseIDToKey = {ItemAt(pos).id : pos \in NamedUses} \ {""}
    /\ \A pos \in NamedUses :
          (/\ ItemAt(pos).id # ""
           /\ \A later \in NamedUses :
                 ItemAt(later).id = ItemAt(pos).id => ~Before(pos, later))
          => toolUseIDToKey[ItemAt(pos).id] = SignatureAt(pos)
    /\ (scanPc = "done" /\ ~scanResult.err) =>
          /\ {PermissionKey(stat.Permission) : stat \in scanResult.stats} = DOMAIN counts
          /\ Cardinality(scanResult.stats) = Cardinality(DOMAIN counts)
          /\ \A stat \in scanResult.stats :
                /\ stat.Count = counts[PermissionKey(stat.Permission)]
                /\ stat.Projects = <<>>

\* Two signatures, one of them invoked twice under one reused id
C3_Witness ==
    /\ scanPc = "done"
    /\ Cardinality(scanResult.stats) = 2
    /\ \E stat \in scanResult.stats : stat.Count = 2
    /\ Cardinality(NamedUses) = 3
    /\ Cardinality(DOMAIN toolUseIDToKey) = 1

\* C4: reading a result whose invocation id is not in the mapping at that
\* moment changes no invocation, approved or denied count.
C4_UnknownResultIgnored ==
    [][(/\ scanPc = "items"
        /\ CurrentItem.type = "tool_result"
        /\ CurrentItem.tool_use_id \notin DOMAIN toolUseIDToKey)
       => counts' = counts /\ approved' = approved /\ denied' = denied]_vars

\* A record whose result comes before the invocation it names, then a result
\* for an id no invocation carries: nothing is attributed
C4_Witness ==
    /\ scanPc = "done"
    /\ Len(scanLines) = 2
    /\ scanLines[1].items = <<ToolResult("t2", FALSE, NoContent), TextItem,
                              ToolUse("t2", "Read", NoInput)>>
    /\ scanLines[2].items = <<ToolResult("t3", FALSE, StringContent("ok"))>>
    /\ counts = MapPut(EmptyMap, "Read", 1)
    /\ approved = EmptyMap
    /\ denied = EmptyMap

\* A malformed line: one that is not JSON, or whose message does not decode
Malformed(line) == line.json # "ok"

\* The same file with its malformed lines removed
WithoutMalformed(lines) == SelectSeq(lines, LAMBDA line : ~Malformed(line))

\* C5: the scanner returns no error for a log that opened, and the stats it
\* returns are those of the same log with its malformed lines removed: the
\* well-formed lines before and after a malformed line are all counted.
C5_MalformedSkipped ==
    (scanPc = "done" /\ scanLines # <<>>) =>
        /\ ~scanResult.err
        /\ scanResult.stats =
              parseSessionLog(TRUE, WithoutMalformed(scanLines), sessionTime).stats

(***************************************************************************)
(* Properties of the directory walker (checked under SpecWalk).            *)
(***************************************************************************)
\* C6: two runs of the cached walker with no change to the file system in
\* between return identical output, and the second records no cache miss.
C6_RerunIdentical ==
    (/\ wpc = "idle"
     /\ prev.valid /\ prev.kind = "cached"
     /\ result.valid /\ result.kind = "cached")
    => /\ result.err = prev.err
       /\ result.stats = prev.stats
       /\ result.misses = 0

\* The fingerprint of a file: its modification time and its size
Fingerprint(file) == ToString(file.mtime) \o ":" \o ToString(FileSize(file))

\* C7: the cached walker's lookup for a session is a hit exactly when the
\* file exists, the cache holds an entry for its path, and the entry's
\* fingerprint is that of the file's current mtime and size; a hit uses the
\* entry's stats, and otherwise the file is scanned again (and, when it
\* opens, counted as a miss and stored under its current fingerprint).
C7_HitOnlyOnFingerprint ==
    [][(wpc = "session" /\ kind = "cached") =>
          LET path  == CurrentPath
              file  == FileAt(path)
              fresh == /\ file.status # "missing"
                       /\ path \in DOMAIN cache.Sessions
                       /\ cache.Sessions[path].FileHash = Fingerprint(file)
              scan  == parseSessionLog(file.status = "ok", FileLines(file),
                                       SessionTime(CurrentSession))
              last  == perFile'[Len(perFile')]
          IN  /\ Len(perFile') = Len(perFile) + 1
              /\ last.path = path
              /\ last.hit = fresh
              /\ fresh => /\ last.perms = cache.Sessions[path].Stats
                          /\ cacheHits' = cacheHits + 1
                          /\ cacheMisses' = cacheMisses
                          /\ cache' = cache
              /\ ~fresh => /\ cacheHits' = cacheHits
                           /\ last.skipped = scan.err
                           /\ IF scan.err
                              THEN cacheMisses' = cacheMisses /\ cache' = cache
                              ELSE /\ last.perms = scan.stats
                                   /\ cacheMisses' = cacheMisses + 1
                                   /\ cache'.Sessions[path] =
                                         [FileHash |-> Fingerprint(file),
                                          Stats |-> scan.stats]]_vars

\* The cache file the run began with was usable
LoadedUsable == loaded.status = "json" /\ loaded.version = cacheVersion

\* A run over a usable cache file with a hit, and with a miss on a path the
\* file holds an entry for (its fingerprint has changed)
C7_Witness ==
    /\ wpc # "idle"
    /\ kind = "cached"
    /\ LoadedUsable
    /\ \E i \in DOMAIN perFile : perFile[i].hit
    /\ \E i \in DOMAIN perFile :
          /\ ~perFile[i].hit
          /\ ~perFile[i].skipped
          /\ perFile[i].path \in DOMAIN cacheFile.cache.Sessions

\* The sessions of the run that were scanned after a lookup missed
ScannedMisses == {i \in DOMAIN perFile : ~perFile[i].hit /\ ~perFile[i].skipped}

\* C8: in a run that began with a cache file that is missing, unreadable,
\* not JSON, or of another schema version, the cache began with its three
\* maps empty: its agent maps are empty, its session entries are those the
\* run itself stored, and every hit is on an entry the run itself stored.
C8_BadCacheDiscarded ==
    (wpc # "idle" /\ kind = "cached" /\ ~LoadedUsable) =>
        /\ cache.AgentMappings = EmptyMap
        /\ cache.AgentSessions = EmptyMap
        /\ DOMAIN cache.Sessions = {perFile[i].path : i \in ScannedMisses}
        /\ \A i \in DOMAIN perFile :
              perFile[i].hit =>
                 \E j \in ScannedMisses : j < i /\ perFile[j].path = perFile[i].path

\* A run begins over a cache file of an older schema version that holds
\* session entries and agent entries
C8_Witness ==
    /\ wpc = "project"
    /\ kind = "cached"
    /\ perFile = <<>>
    /\ loaded = [status |-> "json", version |-> cacheVersion - 1]
    /\ cacheFile.cache.Sessions # EmptyMap
    /\ cacheFile.cache.AgentMappings # EmptyMap
    /\ cache = newCache

Merged == {i \in DOMAIN perFile : ~perFile[i].skipped}

SignaturesOf(i) == {PermissionKey(p.Permission) : p \in perFile[i].perms}

\* The PermissionStats of a signature in the results of one session
StatsOf(i, key) == CHOOSE p \in perFile[i].perms : PermissionKey(p.Permission) = key

RECURSIVE SumOver(_, _, _)
SumOver(sessionSet, key, field) ==
    IF sessionSet = {} THEN 0
    ELSE LET i == CHOOSE j \in sessionSet : TRUE
         IN  StatsOf(i, key)[field] + SumOver(sessionSet \ {i}, key, field)

Maximum(S) == CHOOSE m \in S : \A x \in S : x <= m

\* C10: a run returns one entry per signature found in the sessions it
\* merged; the entry's counts are the sums of the per-session counts, its
\* LastSeen the greatest per-session LastSeen, and its project list the
\* decoded names of the projects whose sessions had the signature, each
\* once (so it is not empty).
C10_MergedBySignature ==
    (wpc = "idle" /\ result.valid /\ ~result.err) =>
        /\ {PermissionKey(result.stats[n].Permission) : n \in DOMAIN result.stats}
              = UNION {SignaturesOf(i) : i \in Merged}
        /\ \A n \in DOMAIN result.stats :
              LET stat == result.stats[n]
                  key  == PermissionKey(stat.Permission)
                  has  == {i \in Merged : key \in SignaturesOf(i)}
                  projects == {perFile[i].project : i \in has}
              IN  /\ \A m \in DOMAIN result.stats :
                        PermissionKey(result.stats[m].Permission) = key => m = n
                  /\ stat.Count = SumOver(has, key, "Count")
                  /\ stat.Approved = SumOver(has, key, "Approved")
                  /\ stat.Denied = SumOver(has, key, "Denied")
                  /\ stat.LastSeen = Maximum({StatsOf(i, key).LastSeen : i \in has})
                  /\ {stat.Projects[m] : m \in DOMAIN stat.Projects} = projects
                  /\ Len(stat.Projects) = Cardinality(projects)
                  /\ projects \subseteq {"/a", "b/c"}
                  /\ Len(stat.Projects) > 0

\* A signature found in three sessions of two projects
C10_Witness ==
    /\ wpc = "idle"
    /\ result.valid
    /\ Cardinality(Merged) = 3
    /\ \E n \in DOMAIN result.stats :
          /\ result.stats[n].Permission.Raw = "Read"
          /\ result.stats[n].Count = 4
          /\ Len(result.stats[n].Projects) = 2

\* The sessions that the readable indexes of the first n directory entries
\* list, in the order of the walk
RECURSIVE IndexedSessions(_)
IndexedSessions(n) ==
    IF n = 0 THEN <<>>
    ELSE LET entry  == dir.entries[n]
             usable == entry.isDir /\ indexes[entry.name].status = "ok"
             listed == IF usable THEN indexes[entry.name].entries ELSE <<>>
         IN  IndexedSessions(n - 1)
             \o [i \in DOMAIN listed |->
                    [project |-> entry.name, session |-> listed[i]]]

\* The totals a list of PermissionStats states, by signature
TotalsOf(stats) ==
    {[key |-> PermissionKey(stats[n].Permission), Count |-> stats[n].Count,
      Approved |-> stats[n].Approved, Denied |-> stats[n].Denied] :
        n \in DOMAIN stats}

\* The totals of the results of a set of sessions of the run, by signature
TotalsFrom(sessionSet) ==
    {[key |-> key,
      Count |-> SumOver({i \in sessionSet : key \in SignaturesOf(i)}, key, "Count"),
      Approved |-> SumOver({i \in sessionSet : key \in SignaturesOf(i)}, key, "Approved"),
      Denied |-> SumOver({i \in sessionSet : key \in SignaturesOf(i)}, key, "Denied")] :
        key \in UNION {SignaturesOf(i) : i \in sessionSet}}

C12_ReadDirFailure ==
    (wpc = "idle" /\ result.valid) =>
        /\ dir.status = "missing" =>
              ~result.err /\ result.stats = <<>> /\ perFile = <<>> /\ saves = 0
        /\ dir.status = "error" =>
              result.err /\ result.stats = <<>> /\ perFile = <<>> /\ saves = 0
        /\ result.err => dir.status = "error"

\* A run over a directory that exists and cannot be read
C12_Witness ==
    /\ wpc = "idle"
    /\ result.valid
    /\ dir.status = "error"
    /\ result.err

\* The first session of the run whose results hold the signature: the
\* session that inserted it into the aggregation
FirstSeen(key) ==
    CHOOSE i \in Merged :
        /\ key \in SignaturesOf(i)
        /\ \A j \in Merged : key \in SignaturesOf(j) => i <= j

\* C13: the list a run returns is descending by Count, and of two entries
\* with equal counts the one whose signature was inserted into the
\* aggregation by an earlier session comes first.
C13_SortedStable ==
    (wpc = "idle" /\ result.valid /\ ~result.err) =>
        \A n, k \in DOMAIN result.stats :
            n < k =>
               /\ result.stats[n].Count >= result.stats[k].Count
               /\ result.stats[n].Count = result.stats[k].Count =>
                     FirstSeen(PermissionKey(result.stats[n].Permission))
                        <= FirstSeen(PermissionKey(result.stats[k].Permission))

(***************************************************************************)
(* Properties of the string functions (checked under SpecLib).             *)
(***************************************************************************)
\* The call made last is ExtractPermissionScope for a Bash invocation whose
\* payload decoded
BashCall ==
    /\ libCall.fn = "ExtractPermissionScope"
    /\ libCall.args[1] = "Bash"
    /\ libCall.args[2].json = "object"

BashCommand == libCall.args[2].command

\* The signature of a command text that has a first token: the first
\* token, and the second one too after go, npm, yarn, bun, cargo, git or
\* docker unless it begins with "-"
BashSignature(command) ==
    LET tokens == Fields(command)
    IN  IF /\ tokens[1] \in {"go", "npm", "yarn", "bun", "cargo", "git", "docker"}
           /\ Len(tokens) >= 2
           /\ Char(tokens[2], 1) # "-"
        THEN "Bash(" \o tokens[1] \o " " \o tokens[2] \o ":*)"
        ELSE "Bash(" \o tokens[1] \o ":*)"

BashExamples ==
    /\ ExtractPermissionScope("Bash", BashInput("git -C /repo status")) = "Bash(git:*)"
    /\ ExtractPermissionScope("Bash", BashInput("git status")) = "Bash(git status:*)"
    /\ ExtractPermissionScope("Bash", BashInput("curl -s https://example.com"))
          = "Bash(curl:*)"

\* C14 as stated: every Bash invocation with non-empty command text gets
\* the signature of its first token (and second, after a compound command).
C14_NonEmptyCommandSignature ==
    /\ (BashCall /\ BashCommand # "") =>
          /\ Len(Fields(BashCommand)) >= 1
          /\ libRet = BashSignature(BashCommand)
    /\ BashExamples

\* C14 amended: a Bash invocation whose command text holds a token (a byte
\* that is not white space) gets the signature of its first token (and
\* second, after a compound command); one whose command text is white
\* space only gets the bare tool name, like one with an empty command.
C14_BashSignature ==
    /\ (BashCall /\ Len(Fields(BashCommand)) >= 1) =>
          libRet = BashSignature(BashCommand)
    /\ (BashCall /\ Len(Fields(BashCommand)) = 0) => libRet = "Bash"
    /\ BashExamples

\* A padded command text whose second token is kept
C14_Witness ==
    /\ BashCall
    /\ BashCommand = "  git   status "
    /\ libRet = "Bash(git status:*)"

\* The call made last is ExtractPermissionScope
ScopeCall == libCall.fn = "ExtractPermissionScope"

ScopeTool == libCall.args[1]
ScopePayload == libCall.args[2]

\* C15: ExtractPermissionScope returns "Skill(<name>)" for a Skill
\* invocation whose payload decodes with a non-empty skill name; it returns
\* the bare tool name for a tool other than Bash and Skill, for an absent
\* payload, and for a Bash or Skill payload that does not decode or whose
\* command or skill is empty.
C15_SkillOrBareName ==
    ScopeCall =>
        /\ (/\ ScopeTool = "Skill"
            /\ ScopePayload.json = "object"
            /\ ScopePayload.skill # "")
              => libRet = "Skill(" \o ScopePayload.skill \o ")"
        /\ ScopeTool \notin {"Bash", "Skill"} => libRet = ScopeTool
        /\ ScopePayload.json = "none" => libRet = ScopeTool
        /\ ScopePayload.json = "other" => libRet = ScopeTool
        /\ (ScopeTool = "Bash" /\ ScopePayload.command = "") => libRet = "Bash"
        /\ (ScopeTool = "Skill" /\ ScopePayload.skill = "") => libRet = "Skill"

\* Another tool called with a payload that carries a skill name
C15_Witness ==
    /\ ScopeCall
    /\ ScopeTool = "Read"
    /\ ScopePayload.json = "object"
    /\ ScopePayload.skill = "review"
    /\ libRet = "Read"

\* The call made last is ParsePermission
ParseCall == libCall.fn = "ParsePermission"

ParseArg == libCall.args[1]

\* A family: one or more letters, digits or underscores
IsFamily(f) == Len(f) >= 1 /\ \A i \in 1..Len(f) : Char(f, i) \in WordChars

\* A valid signature string: family, or family(scope) with a non-empty
\* scope that holds no ")"
IsSignature(s) ==
    \/ IsFamily(s)
    \/ \E k \in 1..(Len(s) - 3) :
          /\ IsFamily(SubSeq(s, 1, k))
          /\ Char(s, k + 1) = "("
          /\ Char(s, Len(s)) = ")"
          /\ \A i \in (k + 2)..(Len(s) - 1) : Char(s, i) # ")"

\* The raw string rebuilt from a parsed signature's Type and Scope
RebuildRaw(p) ==
    IF p.Scope = "" THEN p.Type ELSE p.Type \o "(" \o p.Scope \o ")"

\* The parts of a parsed signature round-trip through the raw string
RoundTrips(p, s) ==
    /\ RebuildRaw(p) = s
    /\ IsFamily(p.Type)
    /\ ParsePermission(RebuildRaw(p)).Type = p.Type
    /\ ParsePermission(RebuildRaw(p)).Scope = p.Scope

\* C16 as stated: a valid signature string s round-trips through
\* ParsePermission, and for an s that lacks the pattern Raw is s, Type is
\* s and Scope is empty.
C16_RoundTripOrIdentity ==
    ParseCall =>
        IF IsSignature(ParseArg)
        THEN RoundTrips(libRet, ParseArg)
        ELSE /\ libRet.Raw = ParseArg
             /\ libRet.Type = ParseArg
             /\ libRet.Scope = ""

\* C16 amended: ParsePermission(s).Raw is s without its leading and
\* trailing white space; when that trimmed string is a valid signature
\* string it round-trips through (Type, Scope), and when it lacks the
\* pattern Type is the whole trimmed string and Scope is empty.
C16_RoundTripTrimmed ==
    ParseCall =>
        LET trimmed == TrimSpace(ParseArg)
        IN  /\ libRet.Raw = trimmed
            /\ IF IsSignature(trimmed)
               THEN RoundTrips(libRet, trimmed)
               ELSE libRet.Type = trimmed /\ libRet.Scope = ""

\* A valid signature with a scope, followed by a space
C16_Witness ==
    /\ ParseCall
    /\ ParseArg = "Bash(curl:*) "
    /\ libRet = [Type |-> "Bash", Scope |-> "curl:*", Raw |-> "Bash(curl:*)"]

\* The call made last is matchesPermission
MatchCall == libCall.fn = "matchesPermission"

MatchPerm == libCall.args[1]
MatchPattern == libCall.args[2]

\* The parsed family and scope of a string
FamilyOf(s) == ParsePermission(s).Type
ScopeOf(s) == ParsePermission(s).Scope

\* C17: matchesPermission(signature, pattern) is true exactly when the
\* strings are equal, or the parsed families are equal and the pattern's
\* scope is "*" or empty, or the parsed families and the scopes are equal.
C17_MatchExactly ==
    MatchCall =>
        (libRet <=>
            \/ MatchPerm = MatchPattern
            \/ /\ FamilyOf(MatchPerm) = FamilyOf(MatchPattern)
               /\ ScopeOf(MatchPattern) \in {"*", ""}
            \/ /\ FamilyOf(MatchPerm) = FamilyOf(MatchPattern)
               /\ ScopeOf(MatchPerm) = ScopeOf(MatchPattern))

\* A pattern of the same family with another scope does not cover the
\* signature
C17_Witness ==
    /\ MatchCall
    /\ MatchPerm = "Bash(curl:*)"
    /\ MatchPattern = "Bash(git status:*)"
    /\ libRet = FALSE

\* The call made last is decodeProjectPath
DecodeCall == libCall.fn = "decodeProjectPath"

DecodeArg == libCall.args[1]

\* C19: decodeProjectPath returns the name with every marker "-" replaced
\* by "/" and every other byte kept: a name with a leading marker becomes
\* an absolute path, and a name without one gets no leading slash.
C19_MarkersToSeparators ==
    /\ DecodeCall =>
          /\ Len(libRet) = Len(DecodeArg)
          /\ \A i \in 1..Len(DecodeArg) :
                Char(libRet, i) = IF Char(DecodeArg, i) = "-" THEN "/"
                                  ELSE Char(DecodeArg, i)
          /\ HasPrefix(libRet, "/") <=> HasPrefix(DecodeArg, "-")
    /\ decodeProjectPath("-Users-alice-code-app") = "/Users/alice/code/app"
    /\ decodeProjectPath("local-project") = "local/project"

\* A name with markers and no leading marker
C19_Witness ==
    /\ DecodeCall
    /\ DecodeArg = "local-project"
    /\ libRet = "local/project"

(***************************************************************************)
(* Properties of the approval step (checked under SpecApproval).           *)
(***************************************************************************)
\* Some pattern of an allow list matches the signature
Covered(perm, allow) == \E i \in DOMAIN allow : matchesPermission(perm, allow[i])

\* C18: every permission classified is user-approved when a pattern of the
\* user list matches it (whether or not one of the project list does),
\* otherwise project-approved when a pattern of the project list matches
\* it, otherwise not approved; and no step of the classification changes
\* either list.
C18_ApprovalLevel ==
    /\ [](ldPc \in {"loop", "done"} =>
            \A n \in 1..(permIdx - 1) :
                permissions[n].ApprovedAt =
                    IF Covered(permissions[n].Raw, userApproved)
                    THEN ApprovedUser
                    ELSE IF Covered(permissions[n].Raw, projectApproved)
                    THEN ApprovedProject
                    ELSE NotApproved)
    /\ [][ldPc = "loop" =>
             /\ userApproved' = userApproved
             /\ projectApproved' = projectApproved]_vars

\* All permissions classified: one matched at both levels, one at the
\* project level only, one at neither
C18_Witness ==
    /\ ldPc = "done"
    /\ \E n \in DOMAIN permissions :
          /\ Covered(permissions[n].Raw, userApproved)
          /\ Covered(permissions[n].Raw, projectApproved)
          /\ permissions[n].ApprovedAt = ApprovedUser
    /\ \E n \in DOMAIN permissions : permissions[n].ApprovedAt = ApprovedProject
    /\ \E n \in DOMAIN permissions : permissions[n].ApprovedAt = NotApproved

(***************************************************************************)
(* Properties of extractAgentIdMappings (checked under SpecMapping).       *)
(***************************************************************************)
\* A sub-agent launch with a declared type
IsLaunch(item) ==
    item.type = "tool_use" /\ item.name = "Task" /\ item.subagent_type # ""

\* Line k holds a launch of invocation id u with declared type t
LaunchesAt(k, u, t) ==
    /\ mapLines[k].shape = "json"
    /\ mapLines[k].Type = "assistant"
    /\ mapLines[k].msgOk
    /\ \E i \in DOMAIN mapLines[k].items :
          /\ IsLaunch(mapLines[k].items[i])
          /\ mapLines[k].items[i].id = u
          /\ mapLines[k].items[i].subagent_type = t

\* Line k is a result record that names an agent id and answers id u
AnswersAt(k, u) ==
    /\ mapLines[k].shape = "json"
    /\ mapLines[k].Type = "user"
    /\ mapLines[k].msgOk
    /\ mapLines[k].agentId # ""
    /\ \E i \in DOMAIN mapLines[k].items :
          /\ mapLines[k].items[i].type = "tool_result"
          /\ mapLines[k].items[i].tool_use_id = u

\* Invocation id u is pending when line k is reached: launched on an
\* earlier line and answered on no line in between
PendingAt(k, u) ==
    \E j \in 1..(k - 1) :
        /\ \E t \in {"Explore", "Plan"} : LaunchesAt(j, u, t)
        /\ \A n \in (j + 1)..(k - 1) : ~AnswersAt(n, u)

\* C20: every agent id in the mapping is mapped to the declared type of a
\* launch that a later result record naming that agent id answered (so a
\* result before its launch, or for an id never launched, maps nothing);
\* every result record of the log that names an agent id and answers a
\* pending invocation id has its agent id in the mapping and its
\* invocation id removed from the pendings; reaching the end of the file
\* changes no mapping.
C20_PendingResolved ==
    /\ \A a \in DOMAIN agentIdToAgentType :
          \E k \in DOMAIN mapLines, u \in {"u1", "u2", "u3"} :
              /\ AnswersAt(k, u)
              /\ mapLines[k].agentId = a
              /\ \E j \in 1..(k - 1) : LaunchesAt(j, u, agentIdToAgentType[a])
    /\ \A k \in DOMAIN mapLines, u \in {"u1", "u2", "u3"} :
          (AnswersAt(k, u) /\ PendingAt(k, u)) =>
              /\ mapLines[k].agentId \in DOMAIN agentIdToAgentType
              /\ (\A n \in (k + 1)..Len(mapLines) : ~LaunchesAt(n, u, "Explore")
                                                    /\ ~LaunchesAt(n, u, "Plan"))
                    => u \notin DOMAIN pendingTasks

\* The same for the lines the scanner read: the lines up to the first one
\* that is too long
MappingRead ==
    LET long == {i \in DOMAIN mapLines : mapLines[i].shape = "long"}
    IN  IF long = {} THEN Len(mapLines)
        ELSE CHOOSE i \in long : \A j \in long : i <= j

PendingResolvedAmongRead ==
    /\ \A a \in DOMAIN agentIdToAgentType :
          \E k \in 1..MappingRead, u \in {"u1", "u2", "u3"} :
              /\ AnswersAt(k, u)
              /\ mapLines[k].agentId = a
              /\ \E j \in 1..(k - 1) : LaunchesAt(j, u, agentIdToAgentType[a])
    /\ \A k \in 1..MappingRead, u \in {"u1", "u2", "u3"} :
          (AnswersAt(k, u) /\ PendingAt(k, u)) =>
              /\ mapLines[k].agentId \in DOMAIN agentIdToAgentType
              /\ (\A n \in (k + 1)..MappingRead : ~LaunchesAt(n, u, "Explore")
                                                  /\ ~LaunchesAt(n, u, "Plan"))
                    => u \notin DOMAIN pendingTasks

(***************************************************************************)
(* The agent pass.                                                         *)
(***************************************************************************)
RECURSIVE SeqSum(_)
SeqSum(numbers) ==
    IF numbers = <<>> THEN 0 ELSE Head(numbers) + SeqSum(Tail(numbers))

\* The number of invocations a set of PermissionStats counts
RECURSIVE CountedIn(_)
CountedIn(perms) ==
    IF perms = {} THEN 0
    ELSE LET p == CHOOSE q \in perms : TRUE
         IN  p.Count + CountedIn(perms \ {p})

IsAgentUnit(unit) == unit.pass = 2
\* The agent logs a run finds, in the order of the second pass
AgentLogs == SelectSeq(AgentUnits, IsAgentUnit)

AgentRunDone == apc = "idle" /\ aresult.valid /\ aresult.dir = "ok"

\* The agent logs the run gave to an agent type
FilesOfType(agentType) ==
    {i \in DOMAIN aperFile : aperFile[i].agentType = agentType}

\* C21: a run of the agent pass takes every agent log that exists, once and
\* in order; it gives the log to the type the first pass mapped the log's
\* agent id to, and to "Unknown" when the first pass mapped it to none; a
\* log not answered from the cache counts as a scan of it counts.  The
\* returned entries are those of the types logs were given to, an entry's
\* Sessions is the number of its logs and its TotalCalls the invocations
\* counted in them, so that the TotalCalls of all entries add up to the
\* invocations counted in all agent logs.
C21_AttributedOnce ==
    AgentRunDone =>
        LET stats == aresult.stats
        IN  /\ Len(aperFile) = Len(AgentLogs)
            /\ \A i \in DOMAIN aperFile :
                  LET log  == aperFile[i]
                      file == afiles[log.path]
                  IN  /\ log.path = AgentLogs[i].path
                      /\ log.agentId = AgentLogs[i].id
                      /\ log.agentType =
                            IF log.agentId \in DOMAIN aresult.mappings
                            THEN aresult.mappings[log.agentId]
                            ELSE "Unknown"
                      /\ ~log.hit =>
                            log.perms = parseAgentSession(file.status = "ok",
                                                          FileLines(file)).perms
            /\ {stats[n].AgentType : n \in DOMAIN stats}
                  = {aperFile[i].agentType : i \in DOMAIN aperFile}
            /\ \A n \in DOMAIN stats :
                  LET mine == FilesOfType(stats[n].AgentType)
                  IN  /\ stats[n].Sessions = Cardinality(mine)
                      /\ stats[n].TotalCalls =
                            SeqSum([i \in DOMAIN aperFile |->
                                      IF i \in mine THEN CountedIn(aperFile[i].perms)
                                      ELSE 0])
            /\ SeqSum([n \in DOMAIN stats |-> stats[n].TotalCalls])
                  = SeqSum([i \in DOMAIN aperFile |-> CountedIn(aperFile[i].perms)])

\* A run that gave a log with invocations to a mapped type and another to
\* "Unknown"
C21_Witness ==
    /\ AgentRunDone
    /\ \E i, j \in DOMAIN aperFile :
          /\ aperFile[i].agentType = "Unknown"
          /\ aperFile[i].agentId \notin DOMAIN aresult.mappings
          /\ CountedIn(aperFile[i].perms) > 0
          /\ aperFile[j].agentId \in DOMAIN aresult.mappings
          /\ CountedIn(aperFile[j].perms) > 0
    /\ Len(aresult.stats) >= 2
\* The lines of a log up to the first one the scanner's buffer cannot hold
ReadBy(lines) ==
    {n \in DOMAIN lines : \A k \in 1..n : ~lines[k].long}

\* The invocation events in the lines read: the named tool_use items, other
\* than launches, of the assistant records, as <<line, item>>
InvocationEvents(lines) ==
    {e \in UNION {{<<n, i>> : i \in DOMAIN lines[n].items} : n \in ReadBy(lines)} :
        /\ lines[e[1]].json = "ok"
        /\ lines[e[1]].Type = "assistant"
        /\ lines[e[1]].items[e[2]].type = "tool_use"
        /\ lines[e[1]].items[e[2]].name \notin {"", "Task"}}

EventSignature(lines, e) ==
    ExtractPermissionScope(lines[e[1]].items[e[2]].name,
                           lines[e[1]].items[e[2]].input)

NotResult(item) == item.type # "tool_result"
\* A log with its result items taken out
WithoutResults(lines) ==
    [n \in DOMAIN lines |-> [lines[n] EXCEPT !.items = SelectSeq(@, NotResult)]]

\* C22: the scan of an agent log returns one PermissionStats for each
\* signature of an invocation event it read, whose Count is the number of
\* those events; a launch (tool Task) is counted under no signature; the
\* same log without its result items gives the same; Approved and Denied
\* are 0 in every PermissionStats of the scan and of the returned
\* AgentUsageStats, and none of them is of the family Task.
C22_InvocationsOnly ==
    /\ (apc = "scan" \/ aresult.valid) =>
          \A i \in DOMAIN aperFile :
             LET file   == afiles[aperFile[i].path]
                 lines  == IF file.status = "ok" THEN FileLines(file) ELSE <<>>
                 events == InvocationEvents(lines)
                 perms  == aperFile[i].perms
             IN  ~aperFile[i].hit =>
                    /\ {p.Permission.Raw : p \in perms}
                          = {EventSignature(lines, e) : e \in events}
                    /\ \A p \in perms :
                          /\ p.Count = Cardinality({e \in events :
                                          EventSignature(lines, e) = p.Permission.Raw})
                          /\ p.Approved = 0
                          /\ p.Denied = 0
                          /\ p.Permission.Type # "Task"
                    /\ perms = parseAgentSession(file.status = "ok",
                                                 WithoutResults(lines)).perms
    /\ AgentRunDone =>
          \A n \in DOMAIN aresult.stats :
             \A k \in DOMAIN aresult.stats[n].Permissions :
                LET p == aresult.stats[n].Permissions[k]
                IN  p.Approved = 0 /\ p.Denied = 0 /\ p.Permission.Type # "Task"

\* A run that scanned a log with a launch, a result and another invocation
\* in the lines read
C22_Witness ==
    /\ AgentRunDone
    /\ \E i \in DOMAIN aperFile :
          LET lines == FileLines(afiles[aperFile[i].path])
          IN  /\ ~aperFile[i].hit
              /\ afiles[aperFile[i].path].status = "ok"
              /\ aperFile[i].perms # {}
              /\ \E n \in ReadBy(lines) :
                    /\ lines[n].Type = "assistant"
                    /\ \E k \in DOMAIN lines[n].items : lines[n].items[k].name = "Task"
              /\ \E n \in ReadBy(lines) :
                    \E k \in DOMAIN lines[n].items :
                       lines[n].items[k].type = "tool_result"
\* C23: the list a run of the agent pass returns is in descending order of
\* TotalCalls, holds no agent type twice, and the TotalCalls of each entry
\* is the sum of the Counts of its Permissions.
C23_SortedByTotalCalls ==
    (apc = "idle" /\ aresult.valid) =>
        LET stats == aresult.stats
        IN  /\ \A n, m \in DOMAIN stats :
                  n < m => stats[n].TotalCalls >= stats[m].TotalCalls
            /\ \A n, m \in DOMAIN stats :
                  stats[n].AgentType = stats[m].AgentType => n = m
            /\ \A n \in DOMAIN stats :
                  stats[n].TotalCalls =
                     SeqSum([k \in DOMAIN stats[n].Permissions |->
                               stats[n].Permissions[k].Count])

\* A run that returned three agent types, one with two signatures, the
\* first with more calls than the last
C23_Witness ==
    /\ AgentRunDone
    /\ Len(aresult.stats) = 3
    /\ aresult.stats[1].TotalCalls > aresult.stats[3].TotalCalls
    /\ \E n \in DOMAIN aresult.stats : Len(aresult.stats[n].Permissions) = 2
(***************************************************************************)
(* GroupPermissions.                                                       *)
(***************************************************************************)
GroupCall == libCall.fn = "GroupPermissions"
GroupInput == libCall.args[1]

\* C24: in every group GroupPermissions returns, TotalCount, TotalApproved
\* and TotalDenied are the sums of the Count, Approved and Denied of the
\* group's children.
C24_TotalsAreSums ==
    GroupCall =>
        \A n \in DOMAIN libRet :
           LET children == libRet[n].Children
           IN  /\ libRet[n].TotalCount =
                     SeqSum([k \in DOMAIN children |-> children[k].Count])
               /\ libRet[n].TotalApproved =
                     SeqSum([k \in DOMAIN children |-> children[k].Approved])
               /\ libRet[n].TotalDenied =
                     SeqSum([k \in DOMAIN children |-> children[k].Denied])

\* A group of three children with approvals and denials among them
C24_Witness ==
    /\ GroupCall
    /\ \E n \in DOMAIN libRet :
          /\ Len(libRet[n].Children) = 3
          /\ libRet[n].TotalApproved > 0
          /\ libRet[n].TotalDenied > 0
          /\ libRet[n].TotalCount > libRet[n].TotalApproved + libRet[n].TotalDenied
\* The number of times a value occurs in a list
Occurrences(list, v) == Cardinality({i \in DOMAIN list : list[i] = v})

\* The spec's scenario: Bash (5), Bash with another scope (3), Read (1)
GroupScenario ==
    <<Stat("Bash(git status:*)", 5, 4, 1, 3, ApprovedUser),
      Stat("Bash(curl:*)", 3, 0, 2, 7, NotApproved),
      Stat("Read", 1, 1, 0, 5, ApprovedProject)>>

\* C25: GroupPermissions returns one group for each family of its input
\* and no other; the children of a group are the input's stats of the
\* group's family, each as often as the input has it; children are in
\* descending order of Count and groups in descending order of TotalCount;
\* an empty input gives an empty output; the scenario gives the groups
\* Bash (total 8, children 5 then 3) and Read (total 1, one child).
C25_PartitionByFamily ==
    /\ GroupCall =>
          LET stats == GroupInput
          IN  /\ {libRet[n].Type : n \in DOMAIN libRet}
                    = {stats[i].Permission.Type : i \in DOMAIN stats}
              /\ \A n, m \in DOMAIN libRet :
                    /\ libRet[n].Type = libRet[m].Type => n = m
                    /\ n < m => libRet[n].TotalCount >= libRet[m].TotalCount
              /\ \A n \in DOMAIN libRet :
                    LET children == libRet[n].Children
                    IN  /\ \A k \in DOMAIN children :
                              children[k].Permission.Type = libRet[n].Type
                        /\ \A i \in DOMAIN stats :
                              stats[i].Permission.Type = libRet[n].Type =>
                                 Occurrences(children, stats[i])
                                    = Occurrences(stats, stats[i])
                        /\ \A k \in DOMAIN children :
                              Occurrences(stats, children[k]) > 0
                        /\ \A k, l \in DOMAIN children :
                              k < l => children[k].Count >= children[l].Count
              /\ stats = <<>> => libRet = <<>>
    /\ \A groups \in GroupPermissions(GroupScenario) :
          /\ Len(groups) = 2
          /\ groups[1].Type = "Bash" /\ groups[1].TotalCount = 8
          /\ groups[1].Children = <<GroupScenario[1], GroupScenario[2]>>
          /\ groups[2].Type = "Read" /\ groups[2].TotalCount = 1
          /\ groups[2].Children = <<GroupScenario[3]>>

\* Three stats of two families, the smaller family first in the input and
\* the children of the larger one given in ascending order
C25_Witness ==
    /\ GroupCall
    /\ Len(GroupInput) = 3
    /\ Len(libRet) = 2
    /\ GroupInput[1].Permission.Type = libRet[2].Type
    /\ GroupInput[2].Count < GroupInput[3].Count
    /\ libRet[1].Children = <<GroupInput[3], GroupInput[2]>>
\* C26: the ApprovedAt of every group GroupPermissions returns is the
\* greatest ApprovedAt among the group's children, in the order
\* NotApproved < ApprovedProject < ApprovedUser.
C26_HighestApprovalLevel ==
    /\ NotApproved < ApprovedProject
    /\ ApprovedProject < ApprovedUser
    /\ GroupCall =>
          \A n \in DOMAIN libRet :
             LET children == libRet[n].Children
             IN  /\ \E k \in DOMAIN children :
                       libRet[n].ApprovedAt = children[k].ApprovedAt
                 /\ \A k \in DOMAIN children :
                       libRet[n].ApprovedAt >= children[k].ApprovedAt

\* A group whose first child in the input is not approved, whose second is
\* approved by the user and whose third by the project
C26_Witness ==
    /\ GroupCall
    /\ Len(GroupInput) = 3
    /\ Len(libRet) = 1
    /\ GroupInput[1].ApprovedAt = NotApproved
    /\ GroupInput[2].ApprovedAt = ApprovedUser
    /\ GroupInput[3].ApprovedAt = ApprovedProject
    /\ libRet[1].ApprovedAt = ApprovedUser
(***************************************************************************)
(* The progress channel.                                                   *)
(***************************************************************************)
\* Two runs of the uncached walker over the same files, the first with a
\* nil channel and the second with a channel that is drained, both
\* returning
NilThenDrained ==
    /\ wpc = "idle"
    /\ prev.valid /\ prev.kind = "uncached" /\ prev.sink = "nil"
    /\ result.valid /\ result.kind = "uncached" /\ result.sink = "drained"

\* When both return, they return the same error and the same totals
SinkKeepsTotals ==
    NilThenDrained =>
        /\ result.err = prev.err
        /\ TotalsOf(result.stats) = TotalsOf(prev.stats)

\* A walker panics only when it was given a channel and meets a session
\* whose id has fewer than 12 bytes
PanicOnlyWithSink ==
    wpc = "panic" =>
        progress.mode # "nil" /\ Len(CurrentSession.SessionID) < 12

\* C27: a walker given a progress channel that is drained does what the
\* walker given a nil channel does over the same files: it does not panic
\* where that one returns, and it returns the same error and totals.
C27_SinkChangesNothing ==
    /\ wpc # "panic"
    /\ SinkKeepsTotals

\* C28: a run of a walker that was given a progress channel nobody
\* receives from ends (it returns, or it panics on a short session id).
C28_UndrainedRunEnds ==
    (wpc \in {"project", "session", "summary"} /\ progress.mode = "undrained")
        ~> (wpc \in {"idle", "panic"})

\* A run given no channel, or one that is drained, ends
DrainedRunEnds ==
    (wpc \in {"project", "session", "summary"} /\ progress.mode # "undrained")
        ~> (wpc \in {"idle", "panic"})

(***************************************************************************)
(* Properties of writePermissionToSettings (checked under SpecSettings).   *)
(***************************************************************************)
\* The permission of a call is in the allow list the call reads
ListedBefore(call) ==
    /\ call.before.status = "ok"
    /\ AlreadyAllowed(call.before.allow, call.permission)

\* How often the permission of a call is in the allow list of a file
TimesListed(call, file) == Occurrences(file.allow, call.permission)

\* Two calls were made with the same permission, and neither returned an
\* error
SamePermissionTwice ==
    /\ Len(applied) = 2
    /\ applied[1].permission = applied[2].permission
    /\ applied[1].err = ""
    /\ applied[2].err = ""

\* A call that finds its permission in the allow list does not write the
\* file, returns no error and reports WasNew = false
AlreadyPresentNotWritten ==
    \A i \in DOMAIN applied :
        ListedBefore(applied[i]) =>
            /\ ~applied[i].written
            /\ applied[i].after = applied[i].before
            /\ applied[i].err = ""
            /\ ~applied[i].WasNew
            /\ applied[i].toast.toastTicks = 3

\* A call that does not find its permission and returns no error appends it
\* to the allow list, writes the file and reports WasNew = true
AbsentIsAppended ==
    \A i \in DOMAIN applied :
        (~ListedBefore(applied[i]) /\ applied[i].err = "") =>
            /\ applied[i].written
            /\ applied[i].WasNew
            /\ applied[i].after.status = "ok"
            /\ applied[i].after.allow =
                   Append(applied[i].before.allow, applied[i].permission)
            /\ applied[i].LineNumber > 0

\* The second of two calls with the same permission leaves the file as the
\* first left it
SecondCallChangesNothing ==
    SamePermissionTwice =>
        /\ applied[2].after = applied[1].after
        /\ ~applied[2].written
        /\ ~applied[2].WasNew

\* C29 (as the code has it): a call that finds the permission in the allow
\* list does not write the file and reports WasNew = false; after two calls
\* with the same permission the file is as after the first one, and the
\* permission is in the allow list once if the file did not list it before
\* the first call, and as often as the file listed it otherwise
C29_WriteIsIdempotent ==
    /\ AlreadyPresentNotWritten
    /\ AbsentIsAppended
    /\ SecondCallChangesNothing
    /\ SamePermissionTwice =>
          TimesListed(applied[2], applied[2].after) =
              IF ListedBefore(applied[1])
              THEN TimesListed(applied[1], applied[1].before)
              ELSE 1

\* The first of two calls with the same permission wrote it, the second
\* found it
C29_Witness ==
    /\ SamePermissionTwice
    /\ applied[1].WasNew
    /\ applied[1].written
    /\ ~applied[2].WasNew
    /\ applied[2].after = applied[1].after

\* C29 (as stated): the same, the permission being in the allow list
\* exactly once after the two calls
C29_PresentExactlyOnce ==
    /\ AlreadyPresentNotWritten
    /\ SecondCallChangesNothing
    /\ SamePermissionTwice =>
          TimesListed(applied[2], applied[2].after) = 1

(***************************************************************************)
(* Properties of the cache's setters and getters (checked under SpecLib).  *)
(***************************************************************************)
\* A set was called: its map, cache, path, file and value
SetCalled == libCall.fn = "setCached"
SetMap == libCall.args[1]
SetCache == libCall.args[2]
SetPath == libCall.args[3]
SetFile == libCall.args[4]
SetValue == libCall.args[5]

\* The entry a map holds for a path is the fingerprint and the value
HoldsEntry(map, entry, hash, value) ==
    /\ entry.FileHash = hash
    /\ IF map = "Sessions" THEN entry.Stats = value.stats
       ELSE IF map = "AgentMappings" THEN entry.Mappings = value.mappings
       ELSE entry.Perms = value.perms /\ entry.LastSeen = value.lastSeen

\* A set for a file that os.Stat does not find stores nothing, and the get
\* after it misses
SetWithoutFileStoresNothing ==
    (SetCalled /\ fileHash(SetFile).err) =>
        /\ libRet.after = SetCache
        /\ ~libRet.got.hit

\* C30: a set for a path in one of the three maps (the file being there)
\* stores the file's fingerprint and the value under that path, whatever the
\* map held for it; it leaves the other paths of the map, the other two maps
\* and the version as they were; the get that follows, the file untouched,
\* hits and returns the value
C30_SetThenGet ==
    (SetCalled /\ ~fileHash(SetFile).err) =>
        /\ SetPath \in DOMAIN libRet.after[SetMap]
        /\ HoldsEntry(SetMap, libRet.after[SetMap][SetPath],
                      fileHash(SetFile).hash, SetValue)
        /\ DOMAIN libRet.after[SetMap] = DOMAIN SetCache[SetMap] \cup {SetPath}
        /\ \A other \in DOMAIN SetCache[SetMap] \ {SetPath} :
              libRet.after[SetMap][other] = SetCache[SetMap][other]
        /\ \A map \in CacheMaps \ {SetMap} : libRet.after[map] = SetCache[map]
        /\ libRet.after.Version = SetCache.Version
        /\ libRet.got.hit
        /\ libRet.got.value = SetValue

\* A set replaced an entry that had another fingerprint and another value,
\* in a cache that holds another path in that map and entries in the other
\* two maps
C30_Witness ==
    /\ SetCalled
    /\ SetMap = "AgentMappings"
    /\ ~fileHash(SetFile).err
    /\ SetPath \in DOMAIN SetCache[SetMap]
    /\ ~HoldsEntry(SetMap, SetCache[SetMap][SetPath],
                   SetCache[SetMap][SetPath].FileHash, SetValue)
    /\ SetCache[SetMap][SetPath].FileHash # fileHash(SetFile).hash
    /\ DOMAIN SetCache[SetMap] # {SetPath}
    /\ DOMAIN SetCache.Sessions # {}
    /\ DOMAIN SetCache.AgentSessions # {}
    /\ libRet.got.hit

(***************************************************************************)
(* Properties of the two walkers side by side (checked under SpecEquiv).   *)
(***************************************************************************)
\* The totals and project sets a list of PermissionStats states
ProjectTotalsOf(stats) ==
    {[key |-> PermissionKey(stats[n].Permission), Count |-> stats[n].Count,
      Approved |-> stats[n].Approved, Denied |-> stats[n].Denied,
      Projects |-> {stats[n].Projects[m] : m \in DOMAIN stats[n].Projects}] :
        n \in DOMAIN stats}

\* The paths whose entry in the cache file carries the fingerprint their
\* file has now
FreshPaths ==
    {path \in DOMAIN cacheFile.cache.Sessions :
        /\ FileAt(path).status # "missing"
        /\ cacheFile.cache.Sessions[path].FileHash = fileHash(FileAt(path)).hash}

\* Every such entry was stored from the content the file has now
EntriesCurrent ==
    \A path \in FreshPaths :
        cacheFile.cache.Sessions[path].Stats
            = StoredStats(path, FileAt(path).content)

\* Every file with such an entry still opens
CachedFilesOpen == \A path \in FreshPaths : FileAt(path).status = "ok"

\* The last two runs were one of each walker
OneOfEach ==
    /\ wpc = "idle"
    /\ prev.valid
    /\ result.valid
    /\ prev.kind # result.kind

SameTotals ==
    /\ result.err = prev.err
    /\ ProjectTotalsOf(result.stats) = ProjectTotalsOf(prev.stats)

\* C31 (as the code has it): over files whose cache entries were stored from
\* the content they have, and which still open, the cached and the uncached
\* walker return the same error and the same signatures with the same
\* counts and project sets, whatever the mix of hits and misses
C31_CachedEqualsUncached ==
    (OneOfEach /\ EntriesCurrent /\ CachedFilesOpen) => SameTotals

\* The cached walker ran after the uncached one, with hits and misses
C31_Witness ==
    /\ OneOfEach
    /\ EntriesCurrent
    /\ CachedFilesOpen
    /\ result.kind = "cached"
    /\ result.hits > 0
    /\ result.misses > 0
    /\ Len(result.stats) > 1

\* C31 (as stated): the same for every file set whose cache entries were
\* stored from the content the files have
C31_EqualWheneverCurrent ==
    (OneOfEach /\ EntriesCurrent) => SameTotals

(***************************************************************************)
(* Properties of the aggregation loop (checked under SpecLib).             *)
(***************************************************************************)
MergeCalled == libCall.fn = "MergeFiles"

\* What an aggregate states for each signature: counts, lastSeen, projects
AggregateTotals(agg) ==
    [key \in DOMAIN agg.statsMap |->
        [Count |-> agg.statsMap[key].Count,
         Approved |-> agg.statsMap[key].Approved,
         Denied |-> agg.statsMap[key].Denied,
         LastSeen |-> agg.statsMap[key].LastSeen,
         Projects |-> agg.projectsMap[key]]]

\* C32: the per-file results merged in any order give the same signatures,
\* and for each signature the same counts, the same lastSeen and the same
\* set of projects.
C32_OrderIndependent ==
    MergeCalled =>
        /\ DOMAIN libRet.visited.projectsMap = DOMAIN libRet.visited.statsMap
        /\ AggregateTotals(libRet.visited) = AggregateTotals(libRet.reordered)

\* Three files merged forwards and backwards; a signature is in two of
\* them, of two projects, with two different times
C32_Witness ==
    /\ MergeCalled
    /\ Len(libCall.args[1]) = 3
    /\ libCall.args[2] = <<3, 2, 1>>
    /\ \E key \in DOMAIN libRet.visited.statsMap :
          /\ Cardinality(libRet.visited.projectsMap[key]) = 2
          /\ libRet.visited.statsMap[key].Count = 3
          /\ libRet.visited.statsMap[key].LastSeen = 6

(***************************************************************************)
(* Properties of the times of a session (checked under SpecLib).           *)
(***************************************************************************)
ParseCalled == libCall.fn = "parseSessionLog"
ParsedSession == libCall.args[1]
ParsedLines == libCall.args[2]

\* The invocations of a log: line and item
InvocationsIn(lines) ==
    {<<i, j>> \in UNION {{<<i, j>> : j \in DOMAIN lines[i].items} :
                            i \in DOMAIN lines} :
        lines[i].items[j].type = "tool_use" /\ lines[i].items[j].name # ""}

SignatureOfItem(item) ==
    PermissionKey(ParsePermission(ExtractPermissionScope(item.name, item.input)))

\* The time of an invocation: its record's timestamp when that parses, the
\* fallback otherwise
TimeOfInvocation(lines, at, fallback) ==
    IF lines[at[1]].timestamp.kind = "rfc3339" THEN lines[at[1]].timestamp.t
    ELSE fallback

\* Each signature's lastSeen is the greatest time of its invocations
LastSeenIsLatest ==
    ParseCalled =>
        /\ {PermissionKey(stat.Permission) : stat \in libRet.stats}
              = {SignatureOfItem(ParsedLines[at[1]].items[at[2]]) :
                    at \in InvocationsIn(ParsedLines)}
        /\ \A stat \in libRet.stats :
              stat.LastSeen =
                  Maximum({TimeOfInvocation(ParsedLines, at, libRet.sessionTime) :
                              at \in {a \in InvocationsIn(ParsedLines) :
                                         SignatureOfItem(ParsedLines[a[1]].items[a[2]])
                                             = PermissionKey(stat.Permission)}})

\* The modified time of an index entry is a time other than the zero time
ModifiedIsSet(session) ==
    session.Modified.kind = "rfc3339" /\ session.Modified.t # 0

\* C33 (as the code has it): the fallback is the entry's modified time when
\* that is present, parses and is not the zero time, and the file's mtime in
\* seconds otherwise; an invocation's time is its record's timestamp when
\* that parses and the fallback otherwise; a signature's lastSeen is the
\* greatest time of its invocations.
C33_FallbackAndLastSeen ==
    /\ ParseCalled =>
          libRet.sessionTime =
              IF ModifiedIsSet(ParsedSession) THEN ParsedSession.Modified.t
              ELSE ParsedSession.FileMtime \div 1000
    /\ LastSeenIsLatest

\* A log of two records for one signature, the first with a timestamp
\* before the fallback and the second without one, of a session whose
\* modified time does not parse
C33_Witness ==
    /\ ParseCalled
    /\ ParsedSession.Modified.kind = "bad"
    /\ libRet.sessionTime = 7
    /\ Len(ParsedLines) = 2
    /\ ParsedLines[1].timestamp = TsAt(1)
    /\ ParsedLines[2].timestamp.kind = "bad"
    /\ \E stat \in libRet.stats : stat.Count = 2 /\ stat.LastSeen = 7

\* C33 (as stated): the fallback is the entry's modified time whenever that
\* is present and parses
C33_ModifiedWheneverParseable ==
    /\ ParseCalled =>
          libRet.sessionTime =
              IF ParsedSession.Modified.kind = "rfc3339"
              THEN ParsedSession.Modified.t
              ELSE ParsedSession.FileMtime \div 1000
    /\ LastSeenIsLatest

(***************************************************************************)
(* Properties of the signatures of Bash invocations (checked under         *)
(* SpecLib).                                                               *)
(***************************************************************************)
BashCalled == libCall.fn = "BashSignature"
ExtractedCommand == extractBashCommand(libCall.args[1])

\* The signature is of the family "Bash", its scope is the extracted
\* command (followed by ":*"), and the pattern "Bash" covers it
InBashFamily ==
    /\ libRet.permission.Type = "Bash"
    /\ libRet.permission.Scope =
          (IF ExtractedCommand = "" THEN "" ELSE ExtractedCommand \o ":*")
    /\ libRet.covered

\* It is so for every command whose extracted command holds no ")"
BashFamilyUnlessParen ==
    (BashCalled /\ ~Contains(ExtractedCommand, ")")) => InBashFamily

\* A command whose extracted command holds a ")" gives a signature that is
\* its own family, without scope, and that "Bash" does not cover
ParenLeavesFamily ==
    (BashCalled /\ Contains(ExtractedCommand, ")")) =>
        /\ libRet.permission.Type = libRet.signature
        /\ libRet.permission.Scope = ""
        /\ ~libRet.covered

\* C34: the signature of every Bash invocation parses to the family "Bash"
\* with the extracted command as scope, and is covered by the pattern
\* "Bash", whatever the command text.
C34_BashFamily ==
    BashCalled => InBashFamily

\* The entries a file lists: none when it is missing
AllowEntries(file) == IF file.status = "ok" THEN file.allow ELSE <<>>
DenyEntries(file) == IF file.status = "ok" THEN file.deny.items ELSE <<>>

\* C35: a call that writes keeps the allow entries and the deny entries the
\* file had, in their order, and adds the permission as the last allow
\* entry; the lists hold nothing else.
C35_WriteKeepsEntries ==
    \A i \in DOMAIN applied :
        applied[i].written =>
            /\ applied[i].err = ""
            /\ applied[i].after.status = "ok"
            /\ applied[i].after.allow =
                   AllowEntries(applied[i].before) \o <<applied[i].permission>>
            /\ applied[i].after.deny.items = DenyEntries(applied[i].before)
            /\ ~applied[i].after.deny.isNil

\* A permission was written to a file that held two allow entries and a
\* deny entry
C35_Witness ==
    \E i \in DOMAIN applied :
        /\ applied[i].written
        /\ Len(applied[i].before.allow) = 2
        /\ applied[i].before.allow[1] # applied[i].before.allow[2]
        /\ Len(applied[i].before.deny.items) = 1
        /\ Len(applied[i].after.allow) = 3

\* C36: a call on a file that does not parse, or that cannot be read though
\* it is there, returns an error and leaves the file as it is; a call on a
\* file that is not there (the directory and the file being writable)
\* creates it with the permission as its only allow entry and an empty deny
\* list.
C36_ErrorsLeaveFile ==
    \A i \in DOMAIN applied :
        /\ applied[i].before.status \in {"invalid", "mistyped", "unreadable"} =>
              /\ applied[i].err # ""
              /\ ~applied[i].written
              /\ applied[i].after = applied[i].before
        /\ (applied[i].before.status = "missing" /\ applied[i].io = "ok") =>
              /\ applied[i].err = ""
              /\ applied[i].written
              /\ applied[i].WasNew
              /\ applied[i].after.status = "ok"
              /\ applied[i].after.allow = <<applied[i].permission>>
              /\ applied[i].after.deny = List(<<>>)
        /\ (applied[i].before.status = "missing" /\ applied[i].io # "ok") =>
              /\ applied[i].err # ""
              /\ applied[i].after = applied[i].before

\* A call failed on a file that does not parse, and so did the next one
C36_Witness ==
    /\ Len(applied) = 2
    /\ applied[1].before.status = "mistyped"
    /\ applied[1].before.allow = <<"Read">>
    /\ applied[1].permission = "Read"
    /\ applied[1].err = "parse settings"
    /\ applied[2].err = "parse settings"
    /\ settingsFile = applied[1].before

\* A call could not write the file that was not there, and the next one
\* created it
CreatedWhenMissing ==
    /\ Len(applied) = 2
    /\ applied[1].before.status = "missing"
    /\ applied[1].io = "write"
    /\ applied[2].before.status = "missing"
    /\ applied[2].written

(***************************************************************************)
(* Properties of PreviewPermissionDiff (checked under SpecSettings).       *)
(***************************************************************************)
\* The permissions asked for
Requested == {preview.permissions[i] : i \in DOMAIN preview.permissions}

\* Writing the permission to the file the preview read reports WasNew =
\* false
WriteReportsOld(permission) ==
    /\ writePermissionToSettings(preview.before, permission, "ok").err = ""
    /\ ~writePermissionToSettings(preview.before, permission, "ok").WasNew

\* The preview leaves the file alone, and says that all exist exactly when
\* the allow list that decodes from the file holds every permission asked
\* for
PreviewReadsAllowList ==
    preview.valid =>
        /\ preview.after = preview.before
        /\ preview.allExist <=>
              \A permission \in Requested :
                  AlreadyAllowed(UnmarshalSettings(preview.before).Allow, permission)

\* For a file that parses, or is not there, it agrees with the writes
PreviewAgreesWhenParsed ==
    (preview.valid /\ preview.before.status \in {"ok", "missing"}) =>
        (preview.allExist <=> \A permission \in Requested : WriteReportsOld(permission))

\* C37: PreviewPermissionDiff does not modify the settings file, and it
\* reports allExist = true exactly when every permission asked for is in
\* the file's allow list, which is exactly when writing each of them would
\* report WasNew = false.
C37_PreviewAgreesWithWrite ==
    preview.valid =>
        /\ preview.after = preview.before
        /\ preview.allExist <=>
              \A permission \in Requested :
                  AlreadyAllowed(UnmarshalSettings(preview.before).Allow, permission)
        /\ preview.allExist <=>
              \A permission \in Requested : WriteReportsOld(permission)

(***************************************************************************)
(* Properties of the keyboard (checked under SpecKeys).                    *)
(***************************************************************************)
GroupCount == Len(tuiModel.permissionGroups)
CurrentGroup == GroupAt(tuiModel, tuiModel.groupCursor)

GroupCursorValid == 0 <= tuiModel.groupCursor /\ tuiModel.groupCursor < GroupCount

ChildCursorValid ==
    \/ tuiModel.childCursor = -1
    \/ /\ 0 <= tuiModel.childCursor
       /\ tuiModel.childCursor < Len(CurrentGroup.Children)
       /\ CurrentGroup.Expanded

\* C38: with a group list that is not empty, whatever keys have been
\* pressed, groupCursor is the index of a group, and childCursor is -1 or
\* the index of a child of that group, which is then expanded.
C38_CursorsValid ==
    GroupCount > 0 => (GroupCursorValid /\ ChildCursorValid)

\* The cursor is on the last child of the last group, reached by going down
\* through an expanded group before it; a group behind the cursor is
\* collapsed again
C38_Witness ==
    /\ GroupCount = MaxGroups
    /\ tuiModel.activeView = ViewFrequency
    /\ tuiModel.groupCursor = GroupCount - 1
    /\ Len(CurrentGroup.Children) = MaxChildren
    /\ tuiModel.childCursor = MaxChildren - 1
    /\ ~GroupAt(tuiModel, 0).Expanded
    /\ ~tuiModel.showApplyModal

\* Before the data is there the cursors stay where NewModel put them
CursorsRestWithoutGroups ==
    GroupCount = 0 => (tuiModel.groupCursor = 0 /\ tuiModel.childCursor = -1)

ModalClosedIsReset ==
    ~tuiModel.showApplyModal =>
        /\ tuiModel.applyModalMode = ApplyModeOptionSelect
        /\ tuiModel.applyOptionCursor = 0
        /\ tuiModel.projectListCursor = 0

ModalOpenInRange ==
    tuiModel.showApplyModal =>
        /\ tuiModel.applyOptionCursor \in {0, 1}
        /\ ~selectedPermission(tuiModel).nil
        /\ 0 <= tuiModel.projectListCursor
        /\ tuiModel.projectListCursor <= Len(selectedPermission(tuiModel).Projects) - 1

InProjectSelect ==
    /\ tuiModel.showApplyModal
    /\ tuiModel.applyModalMode = ApplyModeProjectSelect

\* The step is the Update of the key "esc"
EscPressed ==
    /\ ~tuiQuit
    /\ \E chance \in BOOLEAN :
          tuiModel' = handleKeyboard(tuiModel, "esc", chance).model

EscGoesBack ==
    (InProjectSelect /\ EscPressed) =>
        /\ tuiModel'.showApplyModal
        /\ tuiModel'.applyModalMode = ApplyModeOptionSelect

\* C39: a closed apply modal is in option-select mode with both of its
\* cursors at 0; an open one has its option cursor at 0 or 1 and its
\* project cursor on a project of the selected permission; "esc" in
\* project-select mode goes back to option-select and leaves the modal
\* open.
C39_ApplyModal ==
    /\ [](ModalClosedIsReset /\ ModalOpenInRange)
    /\ [][EscGoesBack]_vars

\* Back in option-select after "esc" in project-select: the two cursors are
\* where they were left, which no other way into option-select gives
C39_Witness ==
    /\ tuiModel.showApplyModal
    /\ tuiModel.applyModalMode = ApplyModeOptionSelect
    /\ tuiModel.applyOptionCursor = 1
    /\ tuiModel.projectListCursor = MaxProjects - 1
====
